---- MODULE Spec2Model ----
(***************************************************************************)
(* Granule windowing of the CSPP SDR runners.                              *)
(*                                                                         *)
(* Two scripts drive an SDR processor from a stream of posttroll messages: *)
(*   bin/cspp_dr_runner.py     _BaseSdrProcessor (sliding window `glist`)  *)
(*   cspp_runner/runner.py     ViirsSdrProcessor (one unit per granule)    *)
(* One run of the program is one of the two scripts (`script`); the        *)
(* processor fields keep the names they have in the source.                *)
(*                                                                         *)
(* Optional values (a Python None, a missing dict key) are <<>>; a value   *)
(* that is present is the one-element sequence <<v>>.  Times are seconds.  *)
(***************************************************************************)
EXTENDS Integers, Sequences, FiniteSets, TLC

VARIABLES
    script,            \* which program runs: "cspp_dr_runner" | "viirs_dr_runner"
    pc,                \* position of npp_rolling_runner: "recv" | "post" | "crashed"
    msg,               \* loop variable of npp_rolling_runner: the last message received
    status,            \* return value of the last call of run()
    raised,            \* the exception that ended the program (<<>> while it runs)
    glist,             \* self.glist
    cspp_results,      \* self.cspp_results: argument lists handed to pool.apply_async
    pass_start_time,   \* self.pass_start_time
    fullswath,         \* self.fullswath
    orbit_number,      \* self.orbit_number
    platform_name,     \* self.platform_name
    message_data,      \* self.message_data
    working_dir,       \* self.working_dir (ViirsSdrProcessor only)
    appended,          \* len(self.glist) right after the append of the last run() (0: no append)
    accepted,          \* granules appended to self.glist since initialise()
    evictions,         \* granules deleted from the head of a full window since initialise()
    published,         \* the messages the code after the receive loop has just sent
    accepted_files,    \* the files appended to self.glist since initialise(), in order
    \* The thread pool of the processor (PoolSpec).
    ncpus,             \* self.ncpus: the number of worker threads of self.pool
    ntasks,            \* calls of pool.apply_async so far (the tasks are numbered 1, 2, ...)
    taskqueue,         \* tasks handed to the pool that no worker has taken yet
    running,           \* tasks whose spawn_cspp call a worker is executing
    session_tasks,     \* tasks handed to the pool since initialise()
    \* One call of spawn_cspp and the CSPP process it starts (WorkerSpec).
    wpc,               \* position of spawn_cspp: "spawn" | "read_stdout" | "read_stderr" | "reconcile" | "done"
    child,             \* the CSPP process: "none" | "running" | "writing_stdout" | "writing_stderr" | "exited"
    written,           \* lines the CSPP process has written or started to write
    stdout_pipe,       \* lines in the pipe of the child's stdout
    stderr_pipe,       \* lines in the pipe of the child's stderr
    exit_code,         \* exit code of the CSPP process (<<>> while it runs)
    workdir,           \* the SDR files in working_dir
    spawned,           \* the arguments of the call: current_granule, and glist if any
    sec_tolerance,     \* granule_time_tolerance
    new_result_files,  \* what get_sdr_files returned to spawn_cspp
    spawn_result,      \* the files spawn_cspp returned
    sent,              \* messages sent on the publisher
    worker_raised,     \* the exception that ended spawn_cspp, if any
    \* A file name handed to get_sdr_times (TimesSpec).
    filename,          \* the times of day t... and e... of the name
    sdr_times,         \* what get_sdr_times returned (<<>> before the call)
    \* The process environment and the ancillary data (UpdateSpec, AtmsSpec).
    environ,           \* os.environ: CSPP_WORKDIR
    options,           \* whether mirror_jpss_luts and mirror_jpss_ancillary are configured
    clock,             \* datetime.utcnow(), in hours
    stamps,            \* the times in the names of the stamp files of each prefix
    lut_mtime,         \* modification time of the first file in lut_dir (<<>>: no file)
    upc,               \* position of npp_rolling_runner: "startup" | "session" | "crashed"
    updates,           \* the calls of update_files of the last check for new files
    update_raised,     \* the exception that ended npp_rolling_runner there, if any
    atms_calls,        \* the calls of run_atms_from_message so far
    \* The list objects of _BaseSdrProcessor and of the pool (ArgsSpec).
    heap,              \* the list objects made so far, by identity
    glist_ref,         \* the list object self.glist is bound to
    tasks,             \* the calls handed to pool.apply_async: their argument list object
    hpc,               \* position of npp_rolling_runner: "recv" | "post"
    \* A processor of bin/cspp_dr_runner.py and a message handed to run() (SceneSpec).
    SENSOR,            \* SENSOR of the class SDR_PROCESSORS gave: "viirs" | "atms" | "cris"
    scene,             \* the message (<<>> before the call)
    scene_accepts,     \* whether run() appended its file to self.glist
    \* AtmsSdrRunner: the thread of run() and a call of close() (RunnerSpec).
    loop,              \* self.loop
    publisher,         \* self.publisher: "started" | "stopped"
    rpc,               \* position of run(): "get" | "process" | "send" | "ended" | "crashed"
    cpc,               \* position of close(): "idle" | "loop_cleared" | "listener_stopped" | "closed"
    atms_msg,          \* msg of run()
    outbox,            \* output_messages not yet sent
    atms_sent,         \* calls of self.publisher.send
    run_raised,        \* the exception that ended run(), if any
    handled            \* messages run() has taken from the queue

loopvars == <<script, pc, msg, status, raised, glist, cspp_results, pass_start_time,
              fullswath, orbit_number, platform_name, message_data, working_dir, appended,
              accepted, evictions, published, accepted_files>>
poolvars == <<ncpus, ntasks, taskqueue, running, session_tasks>>
\* The variables the receive loop of Spec does not look at.
workervars == <<wpc, child, written, stdout_pipe, stderr_pipe, exit_code, workdir,
                spawned, sec_tolerance, new_result_files, spawn_result, sent, worker_raised>>
storevars == <<filename, sdr_times, environ, options, clock, stamps, lut_mtime, upc,
               updates, update_raised, atms_calls>>
argsvars == <<heap, glist_ref, tasks, hpc>>
scenevars == <<SENSOR, scene, scene_accepts>>
atmsrunvars == <<loop, publisher, rpc, cpc, atms_msg, outbox, atms_sent, run_raised, handled>>
extravars == <<argsvars, scenevars, atmsrunvars>>
auxvars == <<storevars, extravars>>
offloop == <<poolvars, workervars, auxvars>>
vars == <<loopvars, offloop>>

\* The fields of the processor object (one session's state).
session == <<glist, cspp_results, pass_start_time, fullswath, orbit_number,
             platform_name, message_data, working_dir>>

---------------------------------------------------------------------------
\* Bounds of the model.

\* RDR granule files present on disk.
NGranules == 3
\* Units a session may dispatch from granule events before the model stops feeding it.
MaxUnits == 4
\* The same for a session of ViirsSdrProcessor (cspp_runner/runner.py), which
\* dispatches every accepted granule on its own.
MaxViirsUnits == 2

---------------------------------------------------------------------------
\* Values.

None == <<>>
Some(v) == <<v>>

\* 4 * 60: a single RDR file longer than this is taken for a full local swath.
SwathThreshold == 240
\* end_time guessed when the message has none.
GuessedGranuleSeconds == 86
\* timedelta.seconds is the seconds part of a timedelta normalised to
\* days + seconds with 0 <= seconds < 24 h.
DaySeconds == 24 * 3600

SDR_SATELLITES == {"Suomi-NPP", "NOAA-20", "NOAA-21"}
VIIRS_SATELLITES == {"Suomi-NPP", "NOAA-20", "NOAA-21"}

\* A file path: the start time its name encodes and its extension.
RdrFile(i) == [start |-> 84 * i, ext |-> "h5"]
RdrFiles == {RdrFile(i) : i \in 1..NGranules}
\* A dispatched file that is no RDR file, and an RDR file that is not on disk.
NotRdrFile == [start |-> 84, ext |-> "txt"]
MissingFile == [start |-> 84 * (NGranules + 1), ext |-> "h5"]
FileSystem == RdrFiles \cup {NotRdrFile}

\* The orbit the granule of file f belongs to: the pass crosses from orbit 7
\* to orbit 8 after the first granule.
OrbitOf(f) == IF f.start <= 84 THEN 7 ELSE 8

\* msg.data['sensor']: a string, or a list of strings.
SensorStr(s) == [is_list |-> FALSE, names |-> <<s>>]
SensorList(l) == [is_list |-> TRUE, names |-> l]

\* The nominal message announcing RDR file f.
FileMessage(f) ==
    [platform_name |-> Some("Suomi-NPP"),
     sensor        |-> Some(SensorStr("viirs")),
     uri           |-> f,
     start_time    |-> f.start,
     end_time      |-> Some(f.start + 85),
     orbit_number  |-> Some(OrbitOf(f))]

G1 == RdrFile(1)

Messages ==
    {FileMessage(f) : f \in RdrFiles \cup {NotRdrFile, MissingFile}}
    \cup {[FileMessage(G1) EXCEPT !.end_time = e] :
             e \in {None, Some(G1.start + SwathThreshold), Some(G1.start + 260)}}
    \cup {[FileMessage(G1) EXCEPT !.orbit_number = None]}
    \cup {[FileMessage(G1) EXCEPT !.platform_name = p] :
             p \in {None, Some("NOAA-20"), Some("Metop-B")}}
    \cup {[FileMessage(G1) EXCEPT !.sensor = s] :
             s \in {None, Some(SensorStr("atms")), Some(SensorList(<<"viirs">>)),
                    Some(SensorList(<<"viirs", "atms">>))}}

\* What subscr.recv(timeout) yields: a message, or None after the timeout.
Received == {None} \cup {Some(m) : m \in Messages}

\* fix_rdrfile(rdr_filename): the file and the orbit number computed for
\* its start time, or an exception.
FixOutcomes(f) ==
    {[exc |-> e, orbnum |-> 0] : e \in {"IOError", "NoTleFile"}}
    \cup {[exc |-> "none", orbnum |-> OrbitOf(f)]}
NoFix == [exc |-> "not called", orbnum |-> 0]

---------------------------------------------------------------------------
\* Helpers of run().

\* `name in msg.data['sensor']`: membership for a list, substring for a string
\* (among the sensor names used here a substring is the whole name).
SensorContains(sensor, name) ==
    IF sensor.is_list
    THEN \E i \in 1..Len(sensor.names) : sensor.names[i] = name
    ELSE sensor.names[1] = name

\* bin/cspp_dr_runner.py: 'platform_name' or 'sensor' missing from msg.data.
LacksKeys(data) == data.platform_name = None \/ data.sensor = None

\* Mutant: the platform or the sensor is enough.
IsSdrSceneEither(data) ==
    \/ data.platform_name[1] \in SDR_SATELLITES
    \/ SensorContains(data.sensor[1], "viirs")

\* bin/cspp_dr_runner.py: the scene filter of _BaseSdrProcessor.run.
IsSdrScene(data) ==
    /\ data.platform_name[1] \in SDR_SATELLITES
    /\ SensorContains(data.sensor[1], "viirs")

\* cspp_runner/runner.py: the scene filter of ViirsSdrProcessor.run.
IsViirsScene(data) ==
    /\ data.platform_name[1] \in VIIRS_SATELLITES
    /\ SensorContains(data.sensor[1], "viirs")

\* msg.data after the sensor list of one name is replaced by that name.
NormaliseSensor(data) ==
    IF data.sensor[1].is_list /\ Len(data.sensor[1].names) = 1
    THEN [data EXCEPT !.sensor = Some(SensorStr(data.sensor[1].names[1]))]
    ELSE data

\* end_time of the message, or the guess start_time + 86 s.
EndTime(data) ==
    IF data.end_time = None THEN data.start_time + GuessedGranuleSeconds
    ELSE data.end_time[1]

\* Mutant: the threshold is taken in minutes.
IsFullSwathMinutes(start_time, end_time) ==
    ((end_time - start_time) % DaySeconds) > SwathThreshold * 60

\* (end_time - start_time).seconds > 4 * 60
IsFullSwath(start_time, end_time) ==
    ((end_time - start_time) % DaySeconds) > SwathThreshold

fname_endswith_h5(f) == f.ext = "h5"
\* Mutant: the file is taken to be there.
os_path_exists_unchecked(f) == TRUE

os_path_exists(f) == f \in FileSystem
get_datetime_from_filename(f) == f.start

\* Mutant: the orbit number of the message is lost when fix_rdrfile fails.
ResolvedOrbitOrNone(data, skip_fix, fix) ==
    IF skip_fix THEN data.orbit_number
    ELSE IF fix.exc = "none" THEN Some(fix.orbnum) ELSE None

\* The orbit number after the call of fix_rdrfile (or without it, when
\* skip_rdr_orbit_number_fix is set): the one of the message unless
\* fix_rdrfile returned one.
ResolvedOrbit(data, skip_fix, fix) ==
    IF ~skip_fix /\ fix.exc = "none" THEN Some(fix.orbnum) ELSE data.orbit_number

\* Mutant: a missing orbit number clears the one of the session.
NewOrbitOrZero(old, orbnum) ==
    IF orbnum /= None /\ orbnum[1] /= 0 THEN orbnum[1] ELSE 0

\* `if orbnum: self.orbit_number = orbnum`
NewOrbit(old, orbnum) ==
    IF orbnum /= None /\ orbnum[1] /= 0 THEN orbnum[1] ELSE old

\* Mutant: a full window drops its two oldest granules.
EvictTwo(gl) == IF Len(gl) = 4 THEN Tail(Tail(gl)) ELSE gl

\* Mutant: the oldest granule is dropped one granule too late.
EvictLate(gl) == IF Len(gl) = 5 THEN Tail(gl) ELSE gl

\* `if len(self.glist) == 4: del self.glist[0]`
Evict(gl) == IF Len(gl) = 4 THEN Tail(gl) ELSE gl

\* Mutant: the oldest granule is the keeper whatever the window holds.
KeeperOldest(gl) == gl[1]

\* The keeper of a window of 3 (the middle one), 2 or 1 (the first) granules.
Keeper(gl) == IF Len(gl) = 3 THEN gl[2] ELSE gl[1]

\* Mutant: a window of two granules is flushed as well.
SwathFinishedAtTwo(gl) == Len(gl) > 1

\* `msg is None and self.glist and len(self.glist) > 2`
SwathFinished(gl) == Len(gl) > 2

\* Mutant: the flush keeps the older of the two granules left.
FlushKeeperOldest(gl) == gl[1]

\* The swath is over: `del self.glist[0]; keeper = self.glist[1]`.
FlushWindow(gl) == Tail(gl)
FlushKeeper(gl) == gl[2]

\* Mutant: the window alone is handed to the pool.
DispatchWindowOnly(keeper, gl) == [args |-> gl, kwargs |-> None]

\* pool.apply_async(spawn_cspp, [keeper] + self.glist)
Dispatch(keeper, gl) == [args |-> <<keeper>> \o gl, kwargs |-> None]

\* spawn_cspp(current_granule, *glist): what the worker takes as the keeper
\* and as the RDR files to run CSPP on.
current_granule(unit) == Head(unit.args)
rdr_files(unit) == Tail(unit.args)

\* Mutant: every dispatch sets the pass start time.
NewPassStartAlways(old, keeper) == Some(get_datetime_from_filename(keeper))

\* `if self.pass_start_time is None: self.pass_start_time = start_time`
NewPassStart(old, keeper) ==
    IF old = None THEN Some(get_datetime_from_filename(keeper)) ELSE old

---------------------------------------------------------------------------
\* The processor object as a record, and the outcome of one call of run().

Self ==
    [glist |-> glist, cspp_results |-> cspp_results,
     pass_start_time |-> pass_start_time, fullswath |-> fullswath,
     orbit_number |-> orbit_number, platform_name |-> platform_name,
     message_data |-> message_data, working_dir |-> working_dir]

Returned(self, st, app) == [self |-> self, status |-> st, raised |-> None, appended |-> app]
Raised(self, exc, app) == [self |-> self, status |-> FALSE, raised |-> Some(exc), appended |-> app]

\* _BaseSdrProcessor.run, from the append of the accepted granule on.
BufferAndDispatch(self, data, f) ==
    LET gl1 == Append(self.glist, f)
        gl2 == Evict(gl1)
        s2  == [self EXCEPT !.glist = gl2]
    IN  IF Len(gl1) > 4
        THEN Raised([self EXCEPT !.glist = gl1], "RuntimeError", Len(gl1))
        ELSE IF Len(gl2) = 1 /\ ~IsFullSwath(data.start_time, EndTime(data))
        THEN Returned(s2, TRUE, Len(gl1))
        ELSE LET keeper == Keeper(gl2)
                 full   == IF Len(gl2) = 1 THEN TRUE ELSE self.fullswath
                 s3     == [s2 EXCEPT
                              !.fullswath = full,
                              !.pass_start_time = NewPassStart(self.pass_start_time, keeper),
                              !.cspp_results = Append(self.cspp_results, Dispatch(keeper, gl2))]
             IN  Returned(s3, ~full, Len(gl1))

\* _BaseSdrProcessor.run(msg)
run(self, m, skip_fix, fix) ==
    IF m = None
    THEN IF SwathFinished(self.glist)
         THEN LET gl == FlushWindow(self.glist)
              IN  IF Len(gl) < 2
                  THEN Raised([self EXCEPT !.glist = gl], "IndexError", 0)
                  ELSE Returned([self EXCEPT
                                   !.glist = gl,
                                   !.cspp_results =
                                       Append(self.cspp_results,
                                              Dispatch(FlushKeeper(gl), gl))],
                                FALSE, 0)
         ELSE Returned(self, TRUE, 0)
    ELSE LET data == m[1] IN
         IF LacksKeys(data) THEN Returned(self, TRUE, 0)
         ELSE IF ~IsSdrScene(data) THEN Returned(self, TRUE, 0)
         ELSE IF data.sensor[1].is_list /\ Len(data.sensor[1].names) /= 1
         THEN Returned(self, FALSE, 0)
         ELSE LET d2 == NormaliseSensor(data)
                  s1 == [self EXCEPT !.platform_name = d2.platform_name[1],
                                     !.message_data = Some(d2)]
              IN  IF ~fname_endswith_h5(d2.uri) THEN Returned(s1, TRUE, 0)
                  ELSE IF ~os_path_exists(d2.uri) THEN Returned(s1, TRUE, 0)
                  ELSE LET orbnum == ResolvedOrbit(d2, skip_fix, fix)
                           s2 == [s1 EXCEPT !.orbit_number = NewOrbit(self.orbit_number, orbnum)]
                       IN  BufferAndDispatch(s2, d2, d2.uri)

\* ViirsSdrProcessor.run: pool.apply_async(spawn_cspp, [keeper], {...})
ViirsDispatch(keeper, self) ==
    [args |-> <<keeper>>,
     kwargs |-> Some([working_dir |-> self.working_dir,
                      platform_name |-> self.platform_name,
                      orbit_number |-> self.orbit_number,
                      message_data |-> self.message_data])]

\* ViirsSdrProcessor.run(msg, ...), cspp_runner/runner.py; mkdir_ok: the
\* pass directory could be created (else a temporary directory is taken).
viirs_run(self, m, fix, mkdir_ok) ==
    IF m = None THEN Returned(self, FALSE, 0)
    ELSE LET data == m[1] IN
         IF LacksKeys(data) THEN Returned(self, TRUE, 0)
         ELSE IF ~IsViirsScene(data) THEN Returned(self, TRUE, 0)
         ELSE LET s1 == [self EXCEPT !.platform_name = data.platform_name[1],
                                     !.message_data = Some(data)]
              IN  IF ~fname_endswith_h5(data.uri) THEN Returned(s1, TRUE, 0)
                  ELSE IF ~os_path_exists(data.uri) THEN Returned(s1, TRUE, 0)
                  ELSE LET orbnum == ResolvedOrbit(data, FALSE, fix)
                           keeper == data.uri
                           s2 == [s1 EXCEPT
                                    !.orbit_number = NewOrbit(self.orbit_number, orbnum),
                                    !.fullswath =
                                        IF IsFullSwath(data.start_time, EndTime(data))
                                        THEN TRUE ELSE self.fullswath,
                                    !.pass_start_time =
                                        NewPassStart(self.pass_start_time, keeper),
                                    !.working_dir =
                                        IF self.working_dir /= None THEN self.working_dir
                                        ELSE IF mkdir_ok THEN Some("pass_subdir")
                                        ELSE Some("mkdtemp")]
                       IN  Returned([s2 EXCEPT !.cspp_results =
                                        Append(self.cspp_results, ViirsDispatch(keeper, s2))],
                                    TRUE, 0)

---------------------------------------------------------------------------
\* npp_rolling_runner of the two scripts.

\* The state when the receive loop is entered for the first time: the
\* processor is constructed and initialise() has been called.
LoopInit ==
    /\ script \in {"cspp_dr_runner", "viirs_dr_runner"}
    /\ pc = "recv"
    /\ msg = None
    /\ status = TRUE
    /\ raised = None
    /\ glist = <<>>
    /\ cspp_results = <<>>
    /\ pass_start_time = None
    /\ fullswath = FALSE
    /\ orbit_number = IF script = "cspp_dr_runner" THEN 1 ELSE 0
    /\ platform_name = "unknown"
    /\ message_data = None
    /\ working_dir = None
    /\ appended = 0
    /\ accepted = 0
    /\ evictions = 0
    /\ published = <<>>
    /\ accepted_files = <<>>

\* The pool with no task handed to it.
PoolIdle(n) ==
    /\ ncpus = n
    /\ ntasks = 0
    /\ taskqueue = <<>>
    /\ running = {}
    /\ session_tasks = {}

\* spawn_cspp is entered: the tolerance is read from the keyword arguments
\* (10 s unless given), CSPP is not started yet.
SpawnCall(call, tolerance) ==
    /\ wpc = "spawn"
    /\ child = "none"
    /\ written = 0
    /\ stdout_pipe = 0
    /\ stderr_pipe = 0
    /\ exit_code = None
    /\ workdir = {}
    /\ spawned = call
    /\ sec_tolerance = tolerance
    /\ new_result_files = {}
    /\ spawn_result = {}
    /\ sent = <<>>
    /\ worker_raised = None

\* The same for a call with positional arguments only.
SpawnEntered(args, tolerance) == SpawnCall([args |-> args, kwargs |-> None], tolerance)

\* The root of the working directories that CSPP_WORKDIR names.
ConfiguredRoot == <<"cspp_workdir">>

\* The ancillary data sets.
Datasets == {"LUT", "ANC"}

\* No file name parsed yet, CSPP_WORKDIR set, no stamp file, no LUT file,
\* npp_rolling_runner not yet at its first check for new files.
StoreIdle ==
    /\ filename = None
    /\ sdr_times = None
    /\ environ = [CSPP_WORKDIR |-> Some(ConfiguredRoot)]
    /\ options = [mirror_jpss_luts |-> TRUE, mirror_jpss_ancillary |-> TRUE]
    /\ clock = 0
    /\ stamps = [d \in Datasets |-> {}]
    /\ lut_mtime = None
    /\ upc = "startup"
    /\ updates = <<>>
    /\ update_raised = None
    /\ atms_calls = <<>>

\* self.glist is the first list object, empty; nothing handed to the pool.
ArgsIdle ==
    /\ heap = <<<<>>>>
    /\ glist_ref = 1
    /\ tasks = <<>>
    /\ hpc = "recv"

\* A VIIRS processor that has been handed no message.
SceneIdle ==
    /\ SENSOR = "viirs"
    /\ scene = None
    /\ scene_accepts = None

\* AtmsSdrRunner after __init__: the publisher is started, self.loop is
\* True, run() has taken no message and close() has not been called.
AtmsRunnerIdle ==
    /\ loop = TRUE
    /\ publisher = "started"
    /\ rpc = "get"
    /\ cpc = "idle"
    /\ atms_msg = None
    /\ outbox = <<>>
    /\ atms_sent = <<>>
    /\ run_raised = None
    /\ handled = 0

ExtraIdle == ArgsIdle /\ SceneIdle /\ AtmsRunnerIdle

\* What the receive loop, the pool and spawn_cspp leave alone.
AuxIdle == StoreIdle /\ ExtraIdle

Init == LoopInit /\ PoolIdle(1) /\ SpawnEntered(<<G1>>, 10) /\ AuxIdle

\* _BaseSdrProcessor.initialise()
initialise ==
    /\ fullswath' = FALSE
    /\ cspp_results' = <<>>
    /\ glist' = <<>>
    /\ pass_start_time' = None
    /\ UNCHANGED <<orbit_number, platform_name, message_data, working_dir>>

\* ViirsSdrProcessor.initialise()
viirs_initialise ==
    /\ fullswath' = FALSE
    /\ cspp_results' = <<>>
    /\ glist' = <<>>
    /\ working_dir' = None
    /\ pass_start_time' = None
    /\ platform_name' = "unknown"
    /\ orbit_number' = 0
    /\ UNCHANGED message_data

\* The messages the model still feeds a session.
Fed(max) == IF Len(cspp_results) < max THEN Received ELSE {None}

\* The outcome r of run() taken over by the loop: `if not status: break`.
Handle(m, r) ==
    /\ msg' = m
    /\ status' = r.status
    /\ raised' = r.raised
    /\ appended' = r.appended
    /\ accepted' = IF r.appended > 0 THEN accepted + 1 ELSE accepted
    /\ evictions' = IF r.appended > 0
                    THEN evictions + (r.appended - Len(r.self.glist))
                    ELSE evictions
    /\ glist' = r.self.glist
    /\ cspp_results' = r.self.cspp_results
    /\ pass_start_time' = r.self.pass_start_time
    /\ fullswath' = r.self.fullswath
    /\ orbit_number' = r.self.orbit_number
    /\ platform_name' = r.self.platform_name
    /\ message_data' = r.self.message_data
    /\ working_dir' = r.self.working_dir
    /\ pc' = IF r.raised /= None THEN "crashed" ELSE IF r.status THEN "recv" ELSE "post"
    /\ published' = <<>>
    /\ accepted_files' = IF r.appended > 0 THEN Append(accepted_files, m[1].uri)
                         ELSE accepted_files
    /\ UNCHANGED script

\* The message m gets as far as the orbit number fix.
ReachesFix(m, scene_ok) ==
    /\ m /= None
    /\ ~LacksKeys(m[1])
    /\ scene_ok
    /\ fname_endswith_h5(m[1].uri)
    /\ os_path_exists(m[1].uri)

\* bin/cspp_dr_runner.py: the setting of skip_rdr_orbit_number_fix and what
\* fix_rdrfile does when run(m) calls it.
FixCalls(m) ==
    IF ReachesFix(m, IsSdrScene(m[1]))
    THEN {[skip_fix |-> TRUE, fix |-> NoFix]}
         \cup {[skip_fix |-> FALSE, fix |-> x] : x \in FixOutcomes(m[1].uri)}
    ELSE {[skip_fix |-> FALSE, fix |-> NoFix]}

\* cspp_runner/runner.py: what fix_rdrfile and mkdir do when run(m) calls them.
ViirsFixCalls(m) ==
    IF ReachesFix(m, IsViirsScene(m[1]))
    THEN {[fix |-> x, mkdir_ok |-> b] : x \in FixOutcomes(m[1].uri), b \in BOOLEAN}
    ELSE {[fix |-> NoFix, mkdir_ok |-> TRUE]}

\* bin/cspp_dr_runner.py: `for msg in subscr.recv(...): status = sdr_proc.run(msg)`
Run ==
    /\ pc = "recv"
    /\ script = "cspp_dr_runner"
    /\ \E m \in Fed(MaxUnits) : \E c \in FixCalls(m) :
           Handle(m, run(Self, m, c.skip_fix, c.fix))
    /\ UNCHANGED offloop

\* cspp_runner/runner.py: `for msg in subscr.recv(...): status = viirs_proc.run(msg, ...)`
ViirsRun ==
    /\ pc = "recv"
    /\ script = "viirs_dr_runner"
    /\ \E m \in Fed(MaxViirsUnits) : \E c \in ViirsFixCalls(m) :
           Handle(m, viirs_run(Self, m, c.fix, c.mkdir_ok))
    /\ UNCHANGED offloop

\* The exception the bookkeeping after the receive loop of
\* bin/cspp_dr_runner.py ends with, if any; subdir: 'subdir' in OPTIONS.
PostError(subdir) ==
    IF pass_start_time = None THEN Some("AttributeError")
    ELSE IF subdir /\ msg = None THEN Some("AttributeError")
    ELSE None

\* `for res in sdr_proc.cspp_results:` with publish_sdr(publisher,
\* sdr_files, sdr_proc.message_data, orbit=sdr_proc.orbit_number): one
\* message for every unit that came back with SDR files (got), each with
\* the message data of the processor.
Published(results, got, mda) ==
    LET units == SelectSeq([i \in 1..Len(results) |-> i], LAMBDA i : got[i])
    IN  [k \in 1..Len(units) |->
            [keeper |-> current_granule(results[units[k]]), mda |-> mda[1]]]

\* publish_sdr of bin/cspp_dr_runner.py is called with the keyword orbit,
\* so `to_send["orig_orbit_number"] = to_send["orbit_number"]` is run for
\* every unit with files: a KeyError for a message without orbit number.
PublishError(got, mda) ==
    IF (\E i \in DOMAIN got : got[i]) /\ mda[1].orbit_number = None
    THEN Some("KeyError")
    ELSE None

\* bin/cspp_dr_runner.py: the code after the receive loop and, unless it
\* raises, `sdr_proc.initialise()` at the head of the next `while True` round.
Post ==
    /\ pc = "post"
    /\ script = "cspp_dr_runner"
    /\ \E subdir \in BOOLEAN, got \in [1..Len(cspp_results) -> BOOLEAN] :
          LET error == IF PostError(subdir) /= None THEN PostError(subdir)
                       ELSE PublishError(got, message_data)
          IN  /\ raised' = error
              /\ IF error = None
                 THEN /\ pc' = "recv"
                      /\ published' = Published(cspp_results, got, message_data)
                      /\ initialise
                 ELSE /\ pc' = "crashed"
                      /\ published' = <<>>
                      /\ UNCHANGED session
    /\ appended' = 0
    /\ accepted' = 0
    /\ evictions' = 0
    /\ accepted_files' = <<>>
    /\ UNCHANGED <<script, msg, status, offloop>>

\* The exception `datetime.utcnow() - viirs_proc.pass_start_time` ends with, if any.
ViirsPostError == IF pass_start_time = None THEN Some("TypeError") ELSE None

\* cspp_runner/runner.py: the code after the receive loop and, unless it
\* raises, `viirs_proc.initialise()` at the head of the next `while True` round.
ViirsPost ==
    /\ pc = "post"
    /\ script = "viirs_dr_runner"
    /\ raised' = ViirsPostError
    /\ IF ViirsPostError = None
       THEN pc' = "recv" /\ viirs_initialise
       ELSE pc' = "crashed" /\ UNCHANGED session
    /\ appended' = 0
    /\ accepted' = 0
    /\ evictions' = 0
    /\ accepted_files' = <<>>
    /\ UNCHANGED <<script, msg, status, published, offloop>>

Next == Run \/ ViirsRun \/ Post \/ ViirsPost

Spec == Init /\ [][Next]_vars

---------------------------------------------------------------------------
\* Properties of the window of _BaseSdrProcessor (bin/cspp_dr_runner.py).

Base == script = "cspp_dr_runner"
Viirs == script = "viirs_dr_runner"

\* The last unit handed to the pool.
LastUnit == cspp_results[Len(cspp_results)]

\* The unit spawn_cspp sees: its keeper and the RDR files CSPP runs on.
Unit(keeper, members) == [args |-> <<keeper>> \o members, kwargs |-> None]

\* C1: the window never holds more than 4 granules: at most 4 right after an
\* append, at most 3 once run() has returned, and the RuntimeError
\* 'Invalid number of granules to process' is never raised.
C1_WindowBound ==
    Base => /\ appended <= 4
            /\ Len(glist) <= 3
            /\ raised /= Some("RuntimeError")

\* A fourth granule was appended to a full window and the oldest one evicted.
C1_Witness == Base /\ appended = 4 /\ Len(glist) = 3 /\ pc = "recv"

\* C2: after run() has appended an accepted granule and applied the eviction,
\* the keeper of the unit it dispatched is glist[1] (the middle one) with 3
\* granules buffered and glist[0] with 2; with 1 buffered it is that granule,
\* and a unit was dispatched only if the granule was judged a full swath.
C2_KeeperChoice ==
    (Base /\ appended > 0 /\ raised = None) =>
        /\ Len(glist) = 3 => current_granule(LastUnit) = glist[2]
        /\ Len(glist) = 2 => current_granule(LastUnit) = glist[1]
        /\ Len(glist) = 1 =>
              IF fullswath
              THEN cspp_results = <<Unit(glist[1], glist)>>
              ELSE cspp_results = <<>>

\* Three different granules are buffered and the middle one was just dispatched.
C2_Witness ==
    /\ Base /\ appended = 3 /\ Len(glist) = 3
    /\ glist[1] /= glist[2] /\ glist[2] /= glist[3] /\ glist[1] /= glist[3]
    /\ current_granule(LastUnit) = glist[2]

\* C3 as stated: G1, G2, G3 fed to a fresh session give two units, the first
\* with keeper G1 and members [G1, G2], the second with keeper G2 and members
\* [G2, G1, G3].
C3_AsStated ==
    (Base /\ appended = 3) =>
        /\ Len(cspp_results) = 2
        /\ current_granule(cspp_results[1]) = glist[1]
        /\ rdr_files(cspp_results[1]) = <<glist[1], glist[2]>>
        /\ current_granule(cspp_results[2]) = glist[2]
        /\ rdr_files(cspp_results[2]) = <<glist[2], glist[1], glist[3]>>

\* C3 amended: G1 alone dispatches nothing; after G2 one unit with keeper G1
\* runs on [G1, G2]; after G3 a second unit with keeper G2 runs on the window
\* in arrival order, [G1, G2, G3] (appended = n: the n-th granule of the
\* session was just buffered, none evicted).
C3_ThreeGranules ==
    Base =>
        /\ (appended = 1 /\ ~fullswath) => cspp_results = <<>>
        /\ appended = 2 => cspp_results = <<Unit(glist[1], glist)>>
        /\ appended = 3 =>
              cspp_results = <<Unit(glist[1], <<glist[1], glist[2]>>),
                               Unit(glist[2], glist)>>

\* G1, G2, G3 arrived in this order and the second unit was dispatched.
C3_Witness ==
    /\ Base /\ appended = 3 /\ pc = "recv" /\ status = TRUE
    /\ glist = <<RdrFile(1), RdrFile(2), RdrFile(3)>>
    /\ Len(cspp_results) = 2

C5_FullSwathGranule ==
    [][ /\ (/\ Base /\ pc = "recv" /\ glist = <<>> /\ appended' = 1
            /\ EndTime(msg'[1]) - msg'[1].start_time > SwathThreshold) =>
              /\ cspp_results' = <<Unit(msg'[1].uri, <<msg'[1].uri>>)>>
              /\ fullswath'
              /\ status' = FALSE
              /\ pc' = "post"
        /\ (Base /\ pc' = "recv") => ~fullswath'
        /\ (Base /\ pc = "post" /\ fullswath /\ pc' = "recv") =>
              glist' = <<>> /\ cspp_results' = <<>>
      ]_vars

\* A granule of 260 s was dispatched alone and ended the receive loop.
C5_Witness ==
    /\ Base /\ pc = "post" /\ fullswath /\ status = FALSE
    /\ msg /= None /\ EndTime(msg[1]) - msg[1].start_time = 260
    /\ glist = <<msg[1].uri>>
    /\ Len(cspp_results) = 1

\* C6: the end of the stream met with 2 or fewer buffered granules (none
\* included) returns True, dispatches nothing and changes no field of the
\* processor.
C6_EndOfStreamIdle ==
    [][ (Base /\ pc = "recv" /\ msg' = None /\ Len(glist) <= 2) =>
            /\ status' = TRUE
            /\ raised' = None
            /\ pc' = "recv"
            /\ UNCHANGED session
      ]_vars

\* The stream paused on a window of two granules and the session went on.
C6_Witness ==
    /\ Base /\ pc = "recv" /\ msg = None /\ status = TRUE
    /\ Len(glist) = 2 /\ Len(cspp_results) = 1

\* The event cannot pass the scene filter: platform_name or sensor is
\* missing, the platform is none of the supported satellites, or the sensor
\* field does not hold 'viirs'.
NotTheScene(data) ==
    \/ data.platform_name = None
    \/ data.sensor = None
    \/ data.platform_name[1] \notin {"Suomi-NPP", "NOAA-20", "NOAA-21"}
    \/ \A i \in 1..Len(data.sensor[1].names) : data.sensor[1].names[i] /= "viirs"

\* C7: a granule event without platform_name or sensor, or of another
\* platform or sensor, is skipped: run() returns True, nothing is dispatched
\* and no field of the processor changes (both processors).
C7_SkipOtherScenes ==
    [][ (pc = "recv" /\ msg' /= None /\ NotTheScene(msg'[1])) =>
            /\ status' = TRUE
            /\ raised' = None
            /\ pc' = "recv"
            /\ UNCHANGED session
      ]_vars

\* An event of another sensor came in while two granules were buffered.
C7_Witness ==
    /\ Base /\ pc = "recv" /\ status = TRUE
    /\ msg /= None /\ msg[1].sensor = Some(SensorStr("atms"))
    /\ Len(glist) = 2

\* bin/cspp_dr_runner.py returns False on a sensor list of several names
\* before it looks at the file.
SeveralSensors(data) ==
    Base /\ data.sensor[1].is_list /\ Len(data.sensor[1].names) /= 1

C9_PassStartSetOnce ==
    [][ /\ pass_start_time' =
              IF cspp_results' = <<>> THEN None
              ELSE Some(current_granule(cspp_results'[1]).start)
        /\ pass_start_time /= None =>
              \/ pass_start_time' = pass_start_time
              \/ pc = "post" /\ pc' = "recv" /\ pass_start_time' = None
      ]_vars

\* A later unit with another keeper was dispatched and the pass start time kept.
C9_Witness ==
    /\ Len(cspp_results) >= 2
    /\ pass_start_time = Some(current_granule(cspp_results[1]).start)
    /\ pass_start_time /= Some(current_granule(LastUnit).start)

\* run() took the event it was just called with into the session.
Accepted ==
    IF Base THEN appended' > 0
    ELSE msg' /= None /\ Len(cspp_results') = Len(cspp_results) + 1

\* A granule accepted in this session has set the orbit number.
OrbitRecorded ==
    IF Base
    THEN /\ glist /= <<>>
         /\ message_data /= None
         /\ message_data[1].uri = glist[Len(glist)]
         /\ message_data[1].orbit_number /= None
    ELSE orbit_number /= 0

\* C10 as stated: once the orbit number of the session is recorded, no later
\* accepted granule of the session changes it.
C10_AsStated ==
    [][ (pc = "recv" /\ OrbitRecorded) => orbit_number' = orbit_number ]_vars

\* C10 amended: every accepted granule with an orbit number (the one
\* fix_rdrfile returns, else the one of the event) sets orbit_number to it,
\* whatever earlier granules of the session recorded; an accepted granule
\* without one and every event that is not accepted leave it unchanged.
C10_OrbitFollowsGranules ==
    [][ pc = "recv" =>
            IF Accepted
            THEN orbit_number' \in
                     {OrbitOf(msg'[1].uri),
                      IF msg'[1].orbit_number \in {None, Some(0)}
                      THEN orbit_number
                      ELSE msg'[1].orbit_number[1]}
            ELSE orbit_number' = orbit_number
      ]_vars

\* Two granules of one session were dispatched with different orbit numbers.
C10_Witness ==
    /\ Viirs /\ Len(cspp_results) = 2
    /\ cspp_results[1].kwargs[1].orbit_number = 7
    /\ cspp_results[2].kwargs[1].orbit_number = 8
    /\ orbit_number = 8

\* C11 as stated: five accepted short granules fed to a fresh session have
\* caused exactly one eviction from the window.
C11_AsStated ==
    (Base /\ accepted = 5 /\ ~fullswath) => evictions = 1

\* C11 amended: the window holds the first three granules of a session and
\* every later one evicts the oldest, so five accepted short granules have
\* caused exactly two evictions (at the fourth and at the fifth) and the
\* window holds three granules.
C11_TwoEvictions ==
    (Base /\ ~fullswath /\ raised = None) =>
        /\ evictions = IF accepted > 3 THEN accepted - 3 ELSE 0
        /\ appended > 0 => Len(glist) = accepted - evictions
        /\ accepted = 5 => evictions = 2

\* The fifth granule of a session was just buffered.
C11_Witness ==
    /\ Base /\ pc = "recv" /\ accepted = 5 /\ appended = 4
    /\ evictions = 2 /\ Len(glist) = 3 /\ Len(cspp_results) = 4

\* C12 as stated: initialise(), called when a new pass starts, leaves the
\* window empty, no dispatch results pending, the pass start time unset, the
\* full-swath flag false, and platform name, orbit number and stored message
\* data at the values the constructor gave them (both processors).
C12_AsStated ==
    [][ (pc = "post" /\ pc' = "recv") =>
            /\ glist' = <<>>
            /\ cspp_results' = <<>>
            /\ pass_start_time' = None
            /\ fullswath' = FALSE
            /\ platform_name' = "unknown"
            /\ orbit_number' = (IF Base THEN 1 ELSE 0)
            /\ message_data' = None
      ]_vars

\* A new pass of bin/cspp_dr_runner.py starts with the platform, the orbit
\* number and the message data of the pass before.
C12_Witness ==
    /\ Base /\ pc = "recv" /\ accepted = 0 /\ glist = <<>> /\ cspp_results = <<>>
    /\ pass_start_time = None /\ ~fullswath
    /\ orbit_number = 8 /\ platform_name = "Suomi-NPP" /\ message_data /= None

---------------------------------------------------------------------------
\* The thread pool: self.pool = ThreadPool(ncpus).  The receive loop is
\* reduced to what the pool sees of it: calls of run() that hand a unit to
\* the pool, the end of the loop, and the code after the loop.
\* pc: "recv" | "post" | "lut" (LUT and ancillary refresh) | "crashed".

\* The largest number of worker threads the pool is configured with.
MaxCpus == 2
\* Units handed to the pool in one run of the program.
MaxTasks == 3

\* What the pool has no part in: the other fields of the receive loop, and
\* what goes on inside a call of spawn_cspp.
held == <<script, msg, status, raised, glist, cspp_results, pass_start_time,
          fullswath, orbit_number, platform_name, message_data, working_dir,
          appended, accepted, evictions, published, accepted_files, workervars, auxvars>>

\* Mutant: a task is started whether or not a worker thread is idle.
HasFreeWorkerAlways(r, n) == TRUE

\* One of the n worker threads of the pool runs no task.
HasFreeWorker(r, n) == Cardinality(r) < n

\* Mutant: the task is put in front of the tasks that wait.
ApplyAsyncFirst(q, t) == <<t>> \o q

\* pool.apply_async(spawn_cspp, ...): the task is put on the task queue of
\* the pool and the AsyncResult is returned at once.
apply_async(q, t) == Append(q, t)

\* The tasks among ts that have not completed.
Unfinished(ts) ==
    {t \in ts : t \in running \/ \E i \in 1..Len(taskqueue) : taskqueue[i] = t}

PoolInit ==
    /\ LoopInit
    /\ \E n \in 1..MaxCpus : PoolIdle(n)
    /\ SpawnEntered(<<G1>>, 10)
    /\ AuxIdle

\* self.cspp_results.append(self.pool.apply_async(spawn_cspp, ...))
Submit ==
    /\ ntasks' = ntasks + 1
    /\ taskqueue' = apply_async(taskqueue, ntasks + 1)
    /\ session_tasks' = session_tasks \cup {ntasks + 1}
    /\ UNCHANGED <<ncpus, running>>

\* A call of run() that dispatches a unit and returns True.
PoolDispatch ==
    /\ pc = "recv"
    /\ ntasks < MaxTasks
    /\ Submit
    /\ UNCHANGED <<pc, held>>

\* bin/cspp_dr_runner.py: run() dispatches the last unit of the pass (the
\* flush at the end of the stream, or a full-swath granule) and returns
\* False.
BaseLoopEnd ==
    /\ pc = "recv"
    /\ Base
    /\ ntasks < MaxTasks
    /\ Submit
    /\ pc' = "post"
    /\ UNCHANGED held

\* cspp_runner/runner.py: run(None) returns False; the code after the loop
\* raises when no unit has set the pass start time.
ViirsLoopEnd ==
    /\ pc = "recv"
    /\ Viirs
    /\ pc' = IF session_tasks = {} THEN "crashed" ELSE "post"
    /\ UNCHANGED <<held, poolvars>>

\* An idle worker thread takes the oldest task of the queue and calls spawn_cspp.
WorkerStart ==
    /\ taskqueue /= <<>>
    /\ HasFreeWorker(running, ncpus)
    /\ running' = running \cup {Head(taskqueue)}
    /\ taskqueue' = Tail(taskqueue)
    /\ UNCHANGED <<pc, held, ncpus, ntasks, session_tasks>>

\* spawn_cspp returns; the worker thread is idle again.
WorkerFinish ==
    /\ \E t \in running : running' = running \ {t}
    /\ UNCHANGED <<pc, held, ncpus, ntasks, taskqueue, session_tasks>>

\* bin/cspp_dr_runner.py: `for res in sdr_proc.cspp_results: res.get()`
\* returns from the last get() once every unit of the session has completed;
\* the LUT and ancillary refresh follows.
BaseCollect ==
    /\ pc = "post"
    /\ Base
    /\ Unfinished(session_tasks) = {}
    /\ pc' = "lut"
    /\ UNCHANGED <<held, poolvars>>

\* cspp_runner/runner.py: pool.join() is commented out; the LUT and
\* ancillary refresh follows the receive loop directly.
ViirsRefresh ==
    /\ pc = "post"
    /\ Viirs
    /\ pc' = "lut"
    /\ UNCHANGED <<held, poolvars>>

\* The refresh is done; initialise() starts the next pass.
PoolInitialise ==
    /\ pc = "lut"
    /\ pc' = "recv"
    /\ session_tasks' = {}
    /\ UNCHANGED <<held, ncpus, ntasks, taskqueue, running>>

PoolNext ==
    \/ PoolDispatch \/ BaseLoopEnd \/ ViirsLoopEnd \/ WorkerStart \/ WorkerFinish
    \/ BaseCollect \/ ViirsRefresh \/ PoolInitialise

PoolSpec == PoolInit /\ [][PoolNext]_vars

\* C13: never more than ncpus calls of spawn_cspp (and so of run_cspp) of
\* one processor run at the same time, however many units were dispatched
\* and in whatever order they complete.
C13_BoundedWorkers == Cardinality(running) <= ncpus

\* Both workers of a pool of two are busy and a further unit waits.
C13_Witness == ncpus = 2 /\ Cardinality(running) = 2 /\ taskqueue /= <<>>

\* C14 as stated: in cspp_runner/runner.py the LUT and ancillary refresh
\* after the receive loop starts only when every unit dispatched in the
\* session has completed.
C14_AsStated == (Viirs /\ pc = "lut") => Unfinished(session_tasks) = {}

\* The refresh of cspp_runner/runner.py runs while a unit of the session
\* is still being processed.
C14_Witness == Viirs /\ pc = "lut" /\ session_tasks \cap running /= {}

\* C15 as stated: with ncpus units running, a further dispatch does not
\* return before a worker is free.
C15_AsStated ==
    [][ Cardinality(running) = ncpus => ntasks' = ntasks ]_vars

\* C15 amended: a dispatch never blocks the receive loop: whatever the
\* number of units running, apply_async appends the unit to the task queue
\* and returns.  What blocks on the pool is the collection of the results
\* after the loop of bin/cspp_dr_runner.py, which does not get past get()
\* while a unit of the session has not completed.
C15_DispatchNeverBlocks ==
    [][ /\ (pc = "recv" /\ ntasks < MaxTasks) => ENABLED PoolDispatch
        /\ ntasks' /= ntasks =>
              /\ taskqueue' = Append(taskqueue, ntasks')
              /\ running' = running
        /\ (Base /\ pc = "post" /\ Unfinished(session_tasks) /= {}) => pc' = "post"
      ]_vars

\* Every worker is busy and two units wait in the queue in the order of
\* their dispatch.
C15_Witness ==
    /\ Cardinality(running) = ncpus
    /\ Len(taskqueue) = 2
    /\ taskqueue[1] < taskqueue[2]
    /\ pc = "recv"

---------------------------------------------------------------------------
\* One call of spawn_cspp (cspp_runner/runner.py) in a worker thread:
\* run_cspp starts CSPP and reads what it writes, get_sdr_files picks the
\* SDR files of the granule in the working directory, publish_sdr announces
\* them.  Times are tenths of a second since midnight, as the file names
\* encode them (t1430538 is 14:30:53.8).

\* Lines a pipe holds before a write to it blocks.
PipeCapacity == 2
\* Lines the CSPP process writes at most.
MaxLines == 3
\* SDR files lie at most this many seconds before or after the RDR granule.
MaxOffset == 11

EXPECTED_NUMBER_OF_SDR_FILES == 28

\* Start time of current_granule,
\* RNSCA-RVIRS_npp_d20230510_t1430538_e1432180_b59761_..._drlu_ops.h5
KeeperStart == ((14 * 60 + 30) * 60 + 53) * 10 + 8

\* Tenths of a second from the start of a granule to its end, where the
\* next one starts (..._t0037099_e0038341_...).
GranuleTenths == 842

\* current_granule: the RDR file of the keeper.
Keeper_rdr == [start |-> KeeperStart, ext |-> "h5"]

\* The values of granule_time_tolerance tried (10 is the default).
Tolerances == {0, 5, 10}

\* strftime('%H%M%S') of a time: the tenths are cut off.
WholeSecond(time) == time \div 10
timedelta_seconds(n) == 10 * n

timedelta_days(n) == n * timedelta_seconds(DaySeconds)

\* n SDR files (bands 1..n) of one granule with start time `start`; the
\* name of a file holds the times of day at which the granule starts and
\* ends.
SdrFiles(n, start) ==
    {[band |-> b, start |-> start, end |-> (start + GranuleTenths) % timedelta_days(1)] :
        b \in 1..n}

\* What CSPP may leave in the working directory: nothing, one file, all but
\* one or all of the files of one granule that starts within MaxOffset
\* seconds of the RDR granule.
WorkDirs ==
    {SdrFiles(n, 10 * (WholeSecond(KeeperStart) + d) + tenth) :
        n \in {0, 1, EXPECTED_NUMBER_OF_SDR_FILES - 1, EXPECTED_NUMBER_OF_SDR_FILES},
        d \in (0 - MaxOffset)..MaxOffset,
        tenth \in {0, 8}}

\* Mutant: the glob does not look at the start time.
GlobAnyTime(sdr_dir, start_time) == sdr_dir

\* get_sdr_filenames_from_pattern_and_parameters with params['start_time']
\* set: the files whose name has that date, hour, minute and second.
get_sdr_filenames_from_pattern_and_parameters(sdr_dir, start_time) ==
    {f \in sdr_dir : WholeSecond(f.start) = WholeSecond(start_time)}

\* Mutant: the search starts at the start time of the RDR granule.
SearchFromStart(start_time, time_tolerance) == start_time

\* expected_start_time = start_time - time_tolerance
SearchFrom(start_time, time_tolerance) == start_time - time_tolerance

\* The while loop of get_sdr_files: one glob per second until enough files
\* are found or start_time + time_tolerance is reached.
RECURSIVE SearchNear(_, _, _, _)
SearchNear(sdr_dir, sdr_files, expected_start_time, search_end) ==
    IF /\ Cardinality(sdr_files) < EXPECTED_NUMBER_OF_SDR_FILES
       /\ expected_start_time < search_end
    THEN SearchNear(sdr_dir,
                    sdr_files \cup get_sdr_filenames_from_pattern_and_parameters(
                                       sdr_dir, expected_start_time),
                    expected_start_time + timedelta_seconds(1),
                    search_end)
    ELSE sdr_files

\* get_sdr_files(sdr_dir, start_time=..., time_tolerance=...)
get_sdr_files(sdr_dir, start_time, time_tolerance) ==
    LET exact == get_sdr_filenames_from_pattern_and_parameters(sdr_dir, start_time)
    IN  IF time_tolerance = 0 THEN exact
        ELSE IF Cardinality(exact) >= EXPECTED_NUMBER_OF_SDR_FILES THEN exact
        ELSE SearchNear(sdr_dir, {}, SearchFrom(start_time, time_tolerance),
                        start_time + time_tolerance)

\* Mutant: the end time is taken as the name gives it.
GetSdrTimesSameDay(start_time, end_time) ==
    [start_time |-> start_time, end_time |-> end_time]

\* get_sdr_times(filename), _dte2time(date, start_time, end_time): the two
\* times of day of a file name as times since the midnight of its date.
get_sdr_times(start_time, end_time) ==
    [start_time |-> start_time,
     end_time |-> IF end_time < start_time THEN end_time + timedelta_days(1)
                  ELSE end_time]

min(s) == CHOOSE x \in s : \A y \in s : x <= y
max(s) == CHOOSE x \in s : \A y \in s : x >= y

\* The message publish_sdr sends: message_data without the uri of the RDR
\* file, with the orbit number of the session in place of its own, the
\* result files as the dataset and the times their names give.
SdrMessage(data, orbit, result_files) ==
    [platform_name |-> data.platform_name,
     sensor |-> data.sensor,
     uri |-> None,
     dataset |-> result_files,
     format |-> "SDR",
     type |-> "HDF5",
     data_processing_level |-> "1B",
     start_time |-> min({get_sdr_times(f.start, f.end).start_time : f \in result_files}),
     end_time |-> max({get_sdr_times(f.start, f.end).end_time : f \in result_files}),
     orbit_number |-> IF orbit > 0 THEN Some(orbit) ELSE data.orbit_number,
     orig_orbit_number |-> IF orbit > 0 THEN data.orbit_number ELSE None]

\* publish_sdr(publisher, publish_topic, message_data, orbit_number,
\* result_files): nothing for an empty list; a KeyError when the orbit
\* number of the session is to replace one the message does not have.
publish_sdr(data, orbit, files) ==
    IF Cardinality(files) = 0
    THEN UNCHANGED <<sent, worker_raised>>
    ELSE IF orbit > 0 /\ data.orbit_number = None
    THEN worker_raised' = Some("KeyError") /\ UNCHANGED sent
    ELSE /\ sent' = Append(sent, SdrMessage(data, orbit, files))
         /\ UNCHANGED worker_raised

\* kwargs['message_data'] and kwargs['orbit_number'] of the call.
MessageData == {FileMessage(G1), [FileMessage(G1) EXCEPT !.orbit_number = None]}
OrbitNumbers == {0, OrbitOf(G1)}

\* The keyword arguments ViirsSdrProcessor.run hands over with a unit.
Kwargs ==
    {[working_dir |-> Some("pass_subdir"), platform_name |-> "Suomi-NPP",
      orbit_number |-> orbit, message_data |-> Some(data)] :
        data \in MessageData, orbit \in OrbitNumbers}

WorkerInit ==
    /\ LoopInit
    /\ script = "viirs_dr_runner"
    /\ PoolIdle(1)
    /\ \E tolerance \in Tolerances, kw \in Kwargs :
          SpawnCall([args |-> <<Keeper_rdr>>, kwargs |-> Some(kw)], tolerance)
    /\ AuxIdle

\* Everything outside the call of spawn_cspp.
outside == <<loopvars, poolvars, auxvars>>

\* run_cspp: subprocess.Popen(cmdlist, stdout=PIPE, stderr=PIPE)
Popen ==
    /\ wpc = "spawn"
    /\ wpc' = "read_stdout"
    /\ child' = "running"
    /\ UNCHANGED <<written, stdout_pipe, stderr_pipe, exit_code, workdir,
                   spawned, sec_tolerance, new_result_files, spawn_result, sent,
                   worker_raised, outside>>

\* The CSPP process starts to write a line to one of its two streams.
ChildWrite ==
    /\ child = "running"
    /\ written < MaxLines
    /\ written' = written + 1
    /\ child' \in {"writing_stdout", "writing_stderr"}
    /\ UNCHANGED <<wpc, stdout_pipe, stderr_pipe, exit_code, workdir,
                   spawned, sec_tolerance, new_result_files, spawn_result, sent,
                   worker_raised, outside>>

\* The write returns once the pipe has room for the line.
ChildWritten ==
    /\ \/ /\ child = "writing_stdout"
          /\ stdout_pipe < PipeCapacity
          /\ stdout_pipe' = stdout_pipe + 1
          /\ UNCHANGED stderr_pipe
       \/ /\ child = "writing_stderr"
          /\ stderr_pipe < PipeCapacity
          /\ stderr_pipe' = stderr_pipe + 1
          /\ UNCHANGED stdout_pipe
    /\ child' = "running"
    /\ UNCHANGED <<wpc, written, exit_code, workdir,
                   spawned, sec_tolerance, new_result_files, spawn_result, sent,
                   worker_raised, outside>>

\* The CSPP process ends with an exit code.
ChildExit ==
    /\ child = "running"
    /\ child' = "exited"
    /\ \E code \in {0, 1} : exit_code' = Some(code)
    /\ UNCHANGED <<wpc, written, stdout_pipe, stderr_pipe, workdir,
                   spawned, sec_tolerance, new_result_files, spawn_result, sent,
                   worker_raised, outside>>

\* run_cspp: `line = viirs_sdr_proc.stdout.readline()` returns a line, or
\* nothing once the child has closed the stream; it blocks on an empty pipe
\* of a live child.
ReadStdout ==
    /\ wpc = "read_stdout"
    /\ IF stdout_pipe > 0
       THEN stdout_pipe' = stdout_pipe - 1 /\ UNCHANGED wpc
       ELSE child = "exited" /\ wpc' = "read_stderr" /\ UNCHANGED stdout_pipe
    /\ UNCHANGED <<child, written, stderr_pipe, exit_code, workdir,
                   spawned, sec_tolerance, new_result_files, spawn_result, sent,
                   worker_raised, outside>>

\* run_cspp: `errline = viirs_sdr_proc.stderr.readline()`, then poll() and
\* return: the exit code is dropped.
ReadStderr ==
    /\ wpc = "read_stderr"
    /\ IF stderr_pipe > 0
       THEN stderr_pipe' = stderr_pipe - 1 /\ UNCHANGED wpc
       ELSE child = "exited" /\ wpc' = "reconcile" /\ UNCHANGED stderr_pipe
    /\ UNCHANGED <<child, written, stdout_pipe, exit_code, workdir,
                   spawned, sec_tolerance, new_result_files, spawn_result, sent,
                   worker_raised, outside>>

\* spawn_cspp after run_cspp: get_sdr_files on what CSPP left in the
\* working directory (sdr_dir), and publish_sdr unless no file was found.
\* data, orbit: kwargs['message_data'], kwargs['orbit_number'].
Reconcile ==
    /\ wpc = "reconcile"
    /\ Viirs
    /\ wpc' = "done"
    /\ \E sdr_dir \in WorkDirs :
          LET data  == spawned.kwargs[1].message_data[1]
              orbit == spawned.kwargs[1].orbit_number
              files == get_sdr_files(sdr_dir, get_datetime_from_filename(current_granule(spawned)),
                                     timedelta_seconds(sec_tolerance))
          IN  /\ workdir' = sdr_dir
              /\ new_result_files' = files
              /\ spawn_result' = files
              /\ publish_sdr(data, orbit, files)
    /\ UNCHANGED <<child, written, stdout_pipe, stderr_pipe, exit_code,
                   spawned, sec_tolerance, outside>>

WorkerNext ==
    \/ Popen \/ ChildWrite \/ ChildWritten \/ ChildExit
    \/ ReadStdout \/ ReadStderr \/ Reconcile

WorkerSpec == WorkerInit /\ [][WorkerNext]_vars

\* Whole seconds between the start time a file name encodes and the start
\* time of the RDR granule.
Distance(f) ==
    LET d == WholeSecond(f.start) - WholeSecond(KeeperStart)
    IN  IF d < 0 THEN 0 - d ELSE d

\* C16 as stated: whatever CSPP writes to its two streams and in whatever
\* order, run_cspp is never stuck: while it reads, either it or the CSPP
\* process can take a step, so that it returns once CSPP has ended.
C16_AsStated ==
    wpc \in {"read_stdout", "read_stderr"} => ENABLED WorkerNext

\* run_cspp waits for a line on stdout while CSPP, still alive, waits for
\* room in the full pipe of its stderr.
C16_Witness ==
    /\ wpc = "read_stdout" /\ stdout_pipe = 0
    /\ child = "writing_stderr" /\ stderr_pipe = PipeCapacity

\* C17 as stated: a unit whose CSPP process exits with a non-zero code ends
\* with no result file and no message sent, whatever the working directory
\* holds.
C17_AsStated ==
    (wpc = "done" /\ exit_code /= Some(0)) =>
        new_result_files = {} /\ sent = <<>>

\* CSPP exited with code 1 and the files in the working directory were
\* returned and announced.
C17_Witness ==
    /\ wpc = "done" /\ exit_code = Some(1)
    /\ Cardinality(new_result_files) = EXPECTED_NUMBER_OF_SDR_FILES
    /\ Len(sent) = 1 /\ sent[1].dataset = new_result_files

\* C18: when CSPP has returned and no file of the working directory matches
\* the unit (the directory is empty, or every file starts more than the
\* tolerance away from the RDR granule), spawn_cspp returns the empty list;
\* whenever it returns the empty list it has sent no message.
C18_NoFilesNoMessage ==
    wpc = "done" =>
        /\ (\A f \in workdir : Distance(f) > sec_tolerance) => new_result_files = {}
        /\ new_result_files = {} => (sent = <<>> /\ worker_raised = None)

\* CSPP ended well, but the files it left are of a granule too far away.
C18_Witness ==
    /\ wpc = "done" /\ exit_code = Some(0)
    /\ Cardinality(workdir) = EXPECTED_NUMBER_OF_SDR_FILES
    /\ new_result_files = {} /\ sent = <<>>

\* C19 as stated: fewer accepted files than the expected 28 means that no
\* message is sent for the unit.
C19_AsStated ==
    (wpc = "done" /\ Cardinality(new_result_files) < EXPECTED_NUMBER_OF_SDR_FILES) =>
        sent = <<>>

\* A message announcing 27 files was sent.
C19_Witness ==
    /\ wpc = "done"
    /\ Cardinality(new_result_files) = EXPECTED_NUMBER_OF_SDR_FILES - 1
    /\ Len(sent) = 1
    /\ Cardinality(sent[1].dataset) = EXPECTED_NUMBER_OF_SDR_FILES - 1

\* C20: on a directory holding the output of a single granule,
\* get_sdr_files returns all of its files when the second their start time
\* falls in is less than T seconds from the second of start_time, and none
\* when it is more than T seconds away; with T = 0 only files of the very
\* second are returned (9 s away: all with T = 10, none with T = 5).
C20_Tolerance ==
    (wpc = "done" /\ workdir /= {}) =>
        \A f \in workdir :
            /\ Distance(f) < sec_tolerance => new_result_files = workdir
            /\ Distance(f) > sec_tolerance => new_result_files = {}
            /\ sec_tolerance = 0 => (new_result_files = workdir <=> Distance(f) = 0)

\* The complete output of a granule that starts 9 s before the RDR granule
\* was returned with a tolerance of 10 s.
C20_Witness ==
    /\ wpc = "done" /\ sec_tolerance = 10
    /\ Cardinality(workdir) = EXPECTED_NUMBER_OF_SDR_FILES
    /\ \A f \in workdir : WholeSecond(f.start) = WholeSecond(KeeperStart) - 9
    /\ new_result_files = workdir

---------------------------------------------------------------------------
\* One call of spawn_cspp of bin/cspp_dr_runner.py in a worker: run_cspp as
\* above, then the SDR files of the keeper are picked among the files found
\* in the working directory with is_same_granule.

Prev_rdr == [start |-> KeeperStart - GranuleTenths, ext |-> "h5"]
Next_rdr == [start |-> KeeperStart + GranuleTenths, ext |-> "h5"]

\* The units the receive loop dispatches for the keeper: the keeper alone
\* (a full swath), or the keeper with the granule before or after it.
BaseUnits ==
    {Dispatch(Keeper_rdr, gl) :
        gl \in {<<Keeper_rdr>>, <<Keeper_rdr, Next_rdr>>, <<Prev_rdr, Keeper_rdr>>}}

\* What CSPP may leave in the working directory of such a unit: the files
\* of a granule that starts within MaxOffset seconds of the keeper, those
\* of the granule after it, both or none.
BaseWorkDirs ==
    {near \cup next :
        near \in {SdrFiles(n, 10 * (WholeSecond(KeeperStart) + d) + tenth) :
                     n \in {0, 2}, d \in (0 - MaxOffset)..MaxOffset, tenth \in {0, 8}},
        next \in {SdrFiles(n, Next_rdr.start) : n \in {0, 2}}}

\* get_sdr_files(working_dir, SENSOR, platform_name=...) as the script
\* calls it: the SDR files of the sensor in the working directory.
get_sdr_files_of_sensor(sdr_dir) == sdr_dir

\* Mutant: a file exactly sec_tolerance seconds away is of the same granule.
IsSameGranuleInclusive(filename1, filename2, tolerance) ==
    LET t1_ == get_datetime_from_filename(filename1)
        t2_ == get_datetime_from_filename(filename2)
        delta_t == IF t1_ < t2_ THEN t2_ - t1_ ELSE t1_ - t2_
    IN  delta_t <= timedelta_seconds(tolerance)

\* is_same_granule(filename1, filename2, sec_tolerance)
is_same_granule(filename1, filename2, tolerance) ==
    LET t1_ == get_datetime_from_filename(filename1)
        t2_ == get_datetime_from_filename(filename2)
        delta_t == IF t1_ < t2_ THEN t2_ - t1_ ELSE t1_ - t2_
    IN  delta_t < timedelta_seconds(tolerance)

\* In(x, s): `x in s` for a sequence s.
In(x, s) == \E i \in 1..Len(s) : s[i] = x

\* spawn_cspp(current_granule, *glist) after run_cspp has returned.
BaseFilter(call, found, tolerance) ==
    IF Cardinality(found) = 0 THEN {}
    ELSE IF In(current_granule(call), rdr_files(call)) /\ Len(rdr_files(call)) = 1
    THEN found
    ELSE {new_file \in found : is_same_granule(current_granule(call), new_file, tolerance)}

BaseWorkerInit ==
    /\ LoopInit
    /\ script = "cspp_dr_runner"
    /\ PoolIdle(1)
    /\ \E call \in BaseUnits, tolerance \in Tolerances :
          SpawnEntered(call.args, tolerance)
    /\ AuxIdle

BaseReconcile ==
    /\ wpc = "reconcile"
    /\ Base
    /\ wpc' = "done"
    /\ \E sdr_dir \in BaseWorkDirs :
          /\ workdir' = sdr_dir
          /\ new_result_files' = get_sdr_files_of_sensor(sdr_dir)
          /\ spawn_result' = BaseFilter(spawned, get_sdr_files_of_sensor(sdr_dir),
                                        sec_tolerance)
    /\ UNCHANGED <<child, written, stdout_pipe, stderr_pipe, exit_code,
                   spawned, sec_tolerance, sent, worker_raised, outside>>

BaseWorkerNext ==
    \/ Popen \/ ChildWrite \/ ChildWritten \/ ChildExit
    \/ ReadStdout \/ ReadStderr \/ BaseReconcile

BaseWorkerSpec == BaseWorkerInit /\ [][BaseWorkerNext]_vars

\* Tenths of a second between the start time of a file and that of the
\* keeper of the call.
Apart(f) ==
    LET k == get_datetime_from_filename(current_granule(spawned))
    IN  IF f.start < k THEN k - f.start ELSE f.start - k

KeeperAlone == rdr_files(spawned) = <<current_granule(spawned)>>

---------------------------------------------------------------------------
\* get_sdr_files (cspp_runner/post_cspp.py) on a working directory that
\* holds the output of two granules.

\* The files, complete or less one, of two granules that start within
\* MaxOffset seconds of the RDR granule.
TwoGranuleDirs ==
    {SdrFiles(na, KeeperStart + timedelta_seconds(a))
       \cup SdrFiles(nb, KeeperStart + timedelta_seconds(b)) :
        na \in {EXPECTED_NUMBER_OF_SDR_FILES - 1, EXPECTED_NUMBER_OF_SDR_FILES},
        nb \in {EXPECTED_NUMBER_OF_SDR_FILES - 1, EXPECTED_NUMBER_OF_SDR_FILES},
        a \in (0 - MaxOffset)..MaxOffset,
        b \in 1..MaxOffset}

\* spawn_cspp has come back from run_cspp and is about to call get_sdr_files.
GetSdrFilesInit ==
    /\ LoopInit
    /\ script = "viirs_dr_runner"
    /\ PoolIdle(1)
    /\ wpc = "reconcile"
    /\ child = "exited"
    /\ written = 0
    /\ stdout_pipe = 0
    /\ stderr_pipe = 0
    /\ exit_code = Some(0)
    /\ workdir \in TwoGranuleDirs
    /\ spawned = [args |-> <<Keeper_rdr>>, kwargs |-> None]
    /\ sec_tolerance \in Tolerances
    /\ new_result_files = {}
    /\ spawn_result = {}
    /\ sent = <<>>
    /\ worker_raised = None
    /\ AuxIdle

\* new_result_files = get_sdr_files(working_dir, start_time=...,
\*                                  time_tolerance=timedelta(seconds=...))
GetSdrFilesCall ==
    /\ wpc = "reconcile"
    /\ wpc' = "found"
    /\ new_result_files' = get_sdr_files(workdir,
                                         get_datetime_from_filename(current_granule(spawned)),
                                         timedelta_seconds(sec_tolerance))
    /\ UNCHANGED <<child, written, stdout_pipe, stderr_pipe, exit_code, workdir,
                   spawned, sec_tolerance, spawn_result, sent, worker_raised, outside>>

\* publish_sdr called with the files get_sdr_files returned, none included.
PublishSdr ==
    /\ wpc = "found"
    /\ wpc' = "done"
    /\ \E data \in MessageData, orbit \in OrbitNumbers :
          publish_sdr(data, orbit, new_result_files)
    /\ UNCHANGED <<child, written, stdout_pipe, stderr_pipe, exit_code, workdir,
                   spawned, sec_tolerance, new_result_files, spawn_result, outside>>

GetSdrFilesSpec == GetSdrFilesInit /\ [][GetSdrFilesCall \/ PublishSdr]_vars

\* The files of the working directory that start inside the window of the
\* tolerance around the start time of the RDR granule.
InWindow == {f \in workdir : Distance(f) < sec_tolerance}

\* C22 as stated: when files of more than one granule lie within the
\* tolerance window, get_sdr_files returns files, and every file it returns
\* is as near in time to the start time of the keeper as any file in the
\* window.
C22_AsStated ==
    (/\ wpc = "found"
     /\ \E f, g \in InWindow : f.start /= g.start) =>
        /\ new_result_files /= {}
        /\ \A f \in new_result_files : \A g \in InWindow : Distance(f) <= Distance(g)

\* The complete output of a granule 1 s after the RDR granule lies in the
\* directory, and the files returned are those of a granule 5 s before it.
C22_Witness ==
    /\ wpc = "found" /\ sec_tolerance = 10
    /\ \E g \in workdir : Distance(g) = 1
    /\ Cardinality({g \in workdir : Distance(g) = 1}) = EXPECTED_NUMBER_OF_SDR_FILES
    /\ new_result_files /= {}
    /\ \A f \in new_result_files : Distance(f) = 5

\* C23 as stated: publish_sdr called with files sends exactly one message:
\* the inbound metadata without the uri, format SDR, type HDF5, level 1B,
\* the files as dataset, the earliest start time and the latest end time
\* of the files; called with no file it sends nothing.
C23_AsStated ==
    wpc = "done" =>
        IF new_result_files = {} THEN sent = <<>>
        ELSE /\ Len(sent) = 1
             /\ sent[1].platform_name = FileMessage(G1).platform_name
             /\ sent[1].sensor = FileMessage(G1).sensor
             /\ sent[1].uri = None
             /\ sent[1].format = "SDR"
             /\ sent[1].type = "HDF5"
             /\ sent[1].data_processing_level = "1B"
             /\ sent[1].dataset = new_result_files
             /\ \A f \in new_result_files :
                    /\ sent[1].start_time <= f.start
                    /\ sent[1].end_time >= f.end
             /\ \E f \in new_result_files : sent[1].start_time = f.start
             /\ \E f \in new_result_files : sent[1].end_time = f.end

\* publish_sdr was called with the files of two granules and raised a
\* KeyError instead of sending a message.
C23_Witness ==
    /\ wpc = "done"
    /\ \E f, g \in new_result_files : f.start /= g.start
    /\ worker_raised = Some("KeyError")
    /\ sent = <<>>

---------------------------------------------------------------------------
\* The messages npp_rolling_runner of bin/cspp_dr_runner.py sends after
\* the receive loop of a session.

\* C24 as stated: every message sent for a unit carries the metadata of the
\* inbound message that announced the keeper of that unit.
C24_AsStated ==
    \A i \in 1..Len(published) : published[i].mda.uri = published[i].keeper

\* Two units of a session were announced, the first one with the metadata
\* of a message that announced another granule than its keeper.
C24_Witness ==
    /\ Base /\ pc = "recv" /\ raised = None
    /\ Len(published) >= 2
    /\ published[1].mda.uri /= published[1].keeper
    /\ published[1].keeper /= published[2].keeper
    /\ published[1].mda = published[2].mda

---------------------------------------------------------------------------
\* run() when fix_rdrfile raises.

\* What run(m) returns in the present state of the processor when
\* fix_rdrfile does `fix`.
RunWith(m, fix) ==
    IF Base THEN run(Self, m, FALSE, fix) ELSE viirs_run(Self, m, fix, TRUE)

\* The RDR files of the units dispatched so far.
UnitFiles(results) == [i \in 1..Len(results) |-> results[i].args]

\* C25: whenever run() accepts a granule when fix_rdrfile succeeds, then
\* with fix_rdrfile raising IOError or NoTleFile it raises nothing and
\* returns the same status, window, dispatched units, pass start time and
\* swath flag; the orbit number of the session is the one of the message if
\* it has one, and else stays what it was.
C25_FixFailureTolerated ==
    pc = "recv" =>
        \A m \in Received :
            ReachesFix(m, IF Base THEN IsSdrScene(m[1]) ELSE IsViirsScene(m[1])) =>
                \A fix \in FixOutcomes(m[1].uri), done \in FixOutcomes(m[1].uri) :
                    (/\ fix.exc \in {"IOError", "NoTleFile"}
                     /\ done.exc = "none"
                     /\ \/ RunWith(m, done).appended > 0
                        \/ Len(RunWith(m, done).self.cspp_results) > Len(cspp_results)) =>
                        LET failed == RunWith(m, fix)
                            fixed == RunWith(m, done)
                        IN  /\ failed.raised = None
                            /\ failed.status = fixed.status
                            /\ failed.appended = fixed.appended
                            /\ failed.self.glist = fixed.self.glist
                            /\ UnitFiles(failed.self.cspp_results)
                                   = UnitFiles(fixed.self.cspp_results)
                            /\ failed.self.pass_start_time = fixed.self.pass_start_time
                            /\ failed.self.fullswath = fixed.self.fullswath
                            /\ failed.self.orbit_number =
                                   IF m[1].orbit_number \in {None, Some(0)}
                                   THEN orbit_number
                                   ELSE m[1].orbit_number[1]

\* A granule announced without orbit number was dispatched and the orbit
\* number of the session is still the initial one: fix_rdrfile had failed.
C25_Witness ==
    /\ Viirs /\ pc = "recv" /\ raised = None
    /\ msg = Some([FileMessage(G1) EXCEPT !.orbit_number = None])
    /\ Len(cspp_results) = 1
    /\ current_granule(cspp_results[1]) = G1
    /\ orbit_number = 0

---------------------------------------------------------------------------
\* get_sdr_times (cspp_runner/__init__.py) on the times a file name holds.

\* Granules before midnight whose start times are tried.
MaxBeforeMidnight == 3

\* The runner, idle: what the specifications below leave alone.
RunnerIdle ==
    /\ LoopInit
    /\ script = "viirs_dr_runner"
    /\ PoolIdle(1)
    /\ SpawnEntered(<<Keeper_rdr>>, 10)
runnervars == <<loopvars, poolvars, workervars>>

\* Times of day, in tenths of a second, that a file name may hold: around
\* midnight, in the afternoon, and the last granules of the day.
TimesOfDay ==
    {0, 1, timedelta_days(1) - 1, KeeperStart, KeeperStart + GranuleTenths}
    \cup {timedelta_days(1) - k * GranuleTenths : k \in 1..MaxBeforeMidnight}

TimesInit ==
    /\ RunnerIdle
    /\ ExtraIdle
    /\ \E s \in TimesOfDay, e \in TimesOfDay : filename = Some([start |-> s, end |-> e])
    /\ sdr_times = None
    /\ environ = [CSPP_WORKDIR |-> Some(ConfiguredRoot)]
    /\ options = [mirror_jpss_luts |-> TRUE, mirror_jpss_ancillary |-> TRUE]
    /\ clock = 0
    /\ stamps = [d \in Datasets |-> {}]
    /\ lut_mtime = None
    /\ upc = "startup"
    /\ updates = <<>>
    /\ update_raised = None
    /\ atms_calls = <<>>

\* start_time, end_time = get_sdr_times(filename)
GetSdrTimes ==
    /\ sdr_times = None
    /\ sdr_times' = Some(get_sdr_times(filename[1].start, filename[1].end))
    /\ UNCHANGED <<filename, environ, options, clock, stamps, lut_mtime, upc, updates,
                   update_raised, atms_calls, runnervars, extravars>>

TimesSpec == TimesInit /\ [][GetSdrTimes]_vars

\* C26: the start time get_sdr_times returns is the one of the name; the
\* end time is the one of the name plus exactly one day when that is the
\* smaller time of day, and the one of the name otherwise; so the end time
\* is never earlier than the start time and less than a day later.
C26_EndNotBeforeStart ==
    sdr_times /= None =>
        LET t == filename[1]
            r == sdr_times[1]
        IN  /\ r.start_time = t.start
            /\ r.end_time = IF t.end < t.start THEN t.end + timedelta_days(1) ELSE t.end
            /\ 0 <= r.end_time - r.start_time
            /\ r.end_time - r.start_time < timedelta_days(1)

\* A granule that starts before midnight and ends after it was parsed: its
\* end time is on the next day.
C26_Witness ==
    /\ sdr_times /= None
    /\ filename[1].start = timedelta_days(1) - GranuleTenths
    /\ filename[1].end = 1
    /\ sdr_times[1].end_time = timedelta_days(1) + 1

---------------------------------------------------------------------------
\* npp_rolling_runner (cspp_runner/runner.py) and the ancillary data:
\* check_lut_files, update_lut_files and update_ancillary_files on entry
\* and after every session.  Times are hours; a stamp file is the time in
\* its name.

\* Hours the sessions of a run take together.
MaxClock == 3

\* url_download_trial_frequency_hours and thr_lut_files_age_days
TrialFrequencyHours == 2
ThrLutFilesAgeDays == 1

\* Mutant: a missing variable is not noticed.
CheckEnvironmentNever(env) == None

\* _check_environment("CSPP_WORKDIR"): the exception it raises, if any.
check_environment(env) ==
    IF env.CSPP_WORKDIR = None THEN Some("EnvironmentError") ELSE None

\* check_lut_files(thr_days, url_download_trial_frequency_hours,
\* lut_update_stampfile_prefix, lut_dir)
check_lut_files(now, stampfiles, mtime) ==
    IF \E tslot \in stampfiles : now - tslot < TrialFrequencyHours THEN TRUE
    ELSE IF mtime = None THEN FALSE
    ELSE ~(now - mtime[1] > 24 * ThrLutFilesAgeDays)

\* What the mirror script and the file system do in one call of
\* update_files: the exit code of the script (none: proc.wait timed out)
\* and whether the stamp file can be opened for writing.
MirrorOutcomes ==
    {[returncode |-> Some(0), writable |-> TRUE],
     [returncode |-> Some(0), writable |-> FALSE],
     [returncode |-> Some(1), writable |-> TRUE],
     [returncode |-> None, writable |-> TRUE]}

\* Mutant: the stamp file is written whatever the exit code.
UpdateFilesAlwaysStamp(what, env, stampfiles, now, outcome) ==
    [what |-> what, now |-> now, raised |-> check_environment(env),
     started |-> check_environment(env) = None,
     returncode |-> outcome.returncode, writable |-> outcome.writable,
     stamped |-> check_environment(env) = None,
     before |-> stampfiles,
     after |-> IF check_environment(env) = None THEN stampfiles \cup {now}
               ELSE stampfiles]

\* update_files(url_jpss_remote_dir, update_stampfile_prefix, mirror_jpss,
\* what): whether the script was started, its exit code, whether a stamp
\* file was written, the stamp files before and after, and the exception
\* the call ended with, if any (`returncode` is unbound after a timeout).
update_files(what, env, stampfiles, now, outcome) ==
    LET call == [what |-> what, now |-> now, raised |-> None, started |-> TRUE,
                 returncode |-> outcome.returncode, writable |-> outcome.writable,
                 stamped |-> FALSE, before |-> stampfiles, after |-> stampfiles]
    IN  IF check_environment(env) /= None
        THEN [call EXCEPT !.raised = check_environment(env), !.started = FALSE,
                          !.returncode = None]
        ELSE IF outcome.returncode = None
        THEN [call EXCEPT !.raised = Some("UnboundLocalError")]
        ELSE IF outcome.returncode /= Some(0) THEN call
        ELSE IF ~outcome.writable THEN call
        ELSE [call EXCEPT !.stamped = TRUE, !.after = stampfiles \cup {now}]

\* The calls of update_files of one check for new files: update_lut_files
\* unless check_lut_files says fresh or no script is configured, then
\* update_ancillary_files unless no script is configured or the first call
\* raised.
RefreshCalls(lut_outcome, anc_outcome) ==
    LET fresh == check_lut_files(clock, stamps["LUT"], lut_mtime)
        lut == IF ~fresh /\ options.mirror_jpss_luts
               THEN <<update_files("LUT", environ, stamps["LUT"], clock, lut_outcome)>>
               ELSE <<>>
        anc == IF /\ options.mirror_jpss_ancillary
                  /\ (lut = <<>> \/ lut[1].raised = None)
               THEN <<update_files("ANC", environ, stamps["ANC"], clock, anc_outcome)>>
               ELSE <<>>
    IN  lut \o anc

\* The check for new files, on entry and after a session.
Refresh ==
    \E lut_outcome \in MirrorOutcomes, anc_outcome \in MirrorOutcomes :
        LET calls == RefreshCalls(lut_outcome, anc_outcome)
            error == IF calls = <<>> THEN None ELSE calls[Len(calls)].raised
        IN  /\ updates' = calls
            /\ stamps' = [d \in Datasets |->
                             IF \E i \in 1..Len(calls) : calls[i].what = d
                             THEN (CHOOSE c \in {calls[i] : i \in 1..Len(calls)} :
                                      c.what = d).after
                             ELSE stamps[d]]
            /\ lut_mtime' \in
                   IF \E i \in 1..Len(calls) :
                         calls[i].what = "LUT" /\ calls[i].returncode = Some(0)
                   THEN {lut_mtime, Some(clock)}
                   ELSE {lut_mtime}
            /\ update_raised' = error
            /\ upc' = IF error = None THEN "session" ELSE "crashed"

UpdateInit ==
    /\ RunnerIdle
    /\ ExtraIdle
    /\ filename = None
    /\ sdr_times = None
    /\ environ \in {[CSPP_WORKDIR |-> Some(ConfiguredRoot)], [CSPP_WORKDIR |-> None]}
    /\ options \in [{"mirror_jpss_luts", "mirror_jpss_ancillary"} -> BOOLEAN]
    /\ clock = 0
    /\ stamps \in [Datasets -> {{}, {0 - TrialFrequencyHours}, {0}}]
    /\ lut_mtime \in {None, Some(0), Some(0 - 24 * ThrLutFilesAgeDays - 1)}
    /\ upc = "startup"
    /\ updates = <<>>
    /\ update_raised = None
    /\ atms_calls = <<>>

\* npp_rolling_runner up to the receive loop.
Startup ==
    /\ upc = "startup"
    /\ Refresh
    /\ UNCHANGED <<filename, sdr_times, environ, options, clock, atms_calls, runnervars, extravars>>

\* A session: time passes until the receive loop is left.
Session ==
    /\ upc = "session"
    /\ upc' = "boundary"
    /\ \E later \in clock..MaxClock : clock' = later
    /\ UNCHANGED <<filename, sdr_times, environ, options, stamps, lut_mtime, updates,
                   update_raised, atms_calls, runnervars, extravars>>

\* npp_rolling_runner after the receive loop.
Boundary ==
    /\ upc = "boundary"
    /\ Refresh
    /\ UNCHANGED <<filename, sdr_times, environ, options, clock, atms_calls, runnervars, extravars>>

UpdateNext == Startup \/ Session \/ Boundary

UpdateSpec == UpdateInit /\ [][UpdateNext]_vars

\* The calls of update_files of the last check.
Updates == {updates[i] : i \in 1..Len(updates)}

\* C27 as stated: update_files writes a stamp file if and only if the
\* mirror script exits with code 0; after any other exit the stamp files
\* are what they were.
C27_AsStated ==
    \A u \in Updates :
        /\ u.stamped <=> u.returncode = Some(0)
        /\ u.returncode /= Some(0) => u.after = u.before

\* C27, amended: update_files writes a stamp file, named for the present
\* time, only if the mirror script exits with code 0, and always when it
\* does so and the file can be opened for writing; otherwise the stamp
\* files are what they were.
C27_StampOnlyOnSuccess ==
    \A u \in Updates :
        /\ u.stamped => u.returncode = Some(0)
        /\ (u.returncode = Some(0) /\ u.writable) => u.stamped
        /\ u.stamped => u.after = u.before \cup {u.now}
        /\ ~u.stamped => u.after = u.before

\* In one check the LUT script failed and left the stamp files alone, and
\* the ancillary script succeeded and a stamp file of this hour is there.
C27_Witness ==
    /\ Len(updates) = 2 /\ clock > 0 /\ upc = "session"
    /\ updates[1].what = "LUT" /\ updates[1].returncode = Some(1)
    /\ ~updates[1].stamped /\ stamps["LUT"] = updates[1].before
    /\ updates[2].what = "ANC" /\ updates[2].returncode = Some(0)
    /\ updates[2].stamped /\ clock \in stamps["ANC"] /\ clock \notin updates[2].before

\* C28 as stated: a refresh of a data set is attempted only when none of
\* its stamp files is younger than url_download_trial_frequency_hours.
C28_AsStated ==
    \A u \in Updates : \A tslot \in u.before : ~(u.now - tslot < TrialFrequencyHours)

\* After a session the ancillary script was started although a stamp file
\* that an earlier refresh of this run wrote was less than two hours old.
C28_Witness ==
    /\ upc = "session"
    /\ \E u \in Updates :
          /\ u.what = "ANC" /\ u.started
          /\ \E tslot \in u.before :
                tslot > 0 /\ u.now - tslot < TrialFrequencyHours

\* C29: with CSPP_WORKDIR not set, every call of update_lut_files or
\* update_ancillary_files raises EnvironmentError, the mirror script is not
\* started, no stamp file is written and npp_rolling_runner ends with the
\* exception.
C29_MissingWorkdir ==
    environ.CSPP_WORKDIR = None =>
        /\ \A u \in Updates :
              /\ u.raised = Some("EnvironmentError")
              /\ ~u.started /\ ~u.stamped /\ u.after = u.before
        /\ updates /= <<>> => (update_raised = Some("EnvironmentError") /\ upc = "crashed")
        /\ \A d \in Datasets : \A tslot \in stamps[d] : tslot <= 0

\* CSPP_WORKDIR is not set and update_ancillary_files, the first update
\* after check_lut_files found a recent stamp file, raised.
C29_Witness ==
    /\ environ.CSPP_WORKDIR = None
    /\ Len(updates) = 1 /\ updates[1].what = "ANC"
    /\ updates[1].raised = Some("EnvironmentError") /\ ~updates[1].started
    /\ stamps["LUT"] = {0} /\ stamps["ANC"] = {}
    /\ upc = "crashed"

\* ---------------------------------------------------------------------
\* atms_rdr2sdr_runner.run_atms_from_message, called again and again in
\* one process.  A directory is the sequence of the names on its path.

\* Calls of run_atms_from_message in one process.
MaxCalls == 4

\* tempfile.gettempdir()
TempDir == <<"tmp">>

\* tempfile.mkdtemp(dir=dir): a new directory in dir; n tells the names
\* apart that successive calls draw.
mkdtemp(dir, n) == dir \o <<"tmp" \o ToString(n)>>

\* os.path.dirname(path)
dirname(path) == SubSeq(path, 1, Len(path) - 1)

\* os.environ["CSPP_WORKDIR"] = working_dir
EnvironAfterCall(env, dir) == [env EXCEPT !.CSPP_WORKDIR = Some(dir)]

\* run_atms_from_message(posttroll_msg, sdr_call, sdr_options): what one
\* call does, given whether the message holds a collection and whether
\* mkdtemp in the work directory raises OSError.
run_atms_from_message(env, collection, oserror, n) ==
    IF ~collection
      THEN [collection |-> FALSE, raised |-> None, root |-> None, oserror |-> FALSE,
            cwd |-> None, returned |-> None, environ |-> env]
    ELSE IF check_environment(env) /= None
      THEN [collection |-> TRUE, raised |-> check_environment(env), root |-> None,
            oserror |-> FALSE, cwd |-> None, returned |-> None, environ |-> env]
    ELSE LET cspp_workdir == env.CSPP_WORKDIR[1]
             atms_dir     == IF oserror THEN mkdtemp(TempDir, n)
                                        ELSE mkdtemp(cspp_workdir, n)
         IN  [collection |-> TRUE, raised |-> None, root |-> Some(cspp_workdir),
              oserror |-> oserror, cwd |-> Some(atms_dir), returned |-> Some(atms_dir),
              environ |-> EnvironAfterCall(env, atms_dir)]

AtmsInit ==
    /\ RunnerIdle
    /\ ExtraIdle
    /\ filename = None
    /\ sdr_times = None
    /\ environ \in {[CSPP_WORKDIR |-> Some(ConfiguredRoot)], [CSPP_WORKDIR |-> None]}
    /\ options = [mirror_jpss_luts |-> TRUE, mirror_jpss_ancillary |-> TRUE]
    /\ clock = 0
    /\ stamps = [d \in Datasets |-> {}]
    /\ lut_mtime = None
    /\ upc = "startup"
    /\ updates = <<>>
    /\ update_raised = None
    /\ atms_calls = <<>>

\* One call of run_atms_from_message.
RunAtmsFromMessage ==
    /\ Len(atms_calls) < MaxCalls
    /\ \E collection \in BOOLEAN, oserror \in BOOLEAN :
         LET call == run_atms_from_message(environ, collection, oserror,
                                           Len(atms_calls) + 1)
         IN  /\ oserror => (collection /\ call.raised = None)
             /\ atms_calls' = Append(atms_calls, [k \in DOMAIN call \ {"environ"} |-> call[k]])
             /\ environ' = call.environ
    /\ UNCHANGED <<filename, sdr_times, options, clock, stamps, lut_mtime, upc, updates,
                   update_raised, runnervars, extravars>>

AtmsSpec == AtmsInit /\ [][RunAtmsFromMessage]_vars

\* The calls made with a collection message that ran the processor.
AtmsRuns == {i \in 1..Len(atms_calls) : atms_calls[i].cwd /= None}

\* C30: every call of run_atms_from_message with a collection message,
\* however many calls went before it in the process, runs the processor
\* in a new working directory that is a direct child of the configured
\* CSPP_WORKDIR, and the configured CSPP_WORKDIR stays what it was (as
\* long as no mkdtemp in the work directory raised OSError).
C30_AsStated ==
    (\A i \in AtmsRuns : ~atms_calls[i].oserror) =>
        /\ \A i \in AtmsRuns : dirname(atms_calls[i].cwd[1]) = ConfiguredRoot
        /\ \A i, j \in AtmsRuns : i /= j => atms_calls[i].cwd /= atms_calls[j].cwd
        /\ AtmsRuns /= {} => environ.CSPP_WORKDIR = Some(ConfiguredRoot)

\* Two calls with collection messages and no OSError: the second runs in
\* a directory inside the working directory of the first.
C30_Witness ==
    /\ Len(atms_calls) = 2
    /\ \A i \in 1..2 : atms_calls[i].collection /\ atms_calls[i].raised = None
                          /\ ~atms_calls[i].oserror
    /\ dirname(atms_calls[1].cwd[1]) = ConfiguredRoot
    /\ dirname(atms_calls[2].cwd[1]) = atms_calls[1].cwd[1]
    /\ environ.CSPP_WORKDIR = atms_calls[2].cwd

\* ---------------------------------------------------------------------
\* The list objects of _BaseSdrProcessor (bin/cspp_dr_runner.py).  A
\* Python list is an object: `self.glist.append(...)` and
\* `del self.glist[0]` change the object self.glist is bound to,
\* `[keeper] + self.glist` and `[]` make a new one, and the pool keeps
\* the argument list it was handed, by reference, until a worker thread
\* calls spawn_cspp(*args).

\* List objects made in one run of the program.
MaxObjects == 7

\* Mutant: the window itself, with the keeper put in front, is handed to
\* the pool.
ArgsObjectShared(h, gref, keeper) ==
    [heap |-> [h EXCEPT ![gref] = <<keeper>> \o h[gref]], ref |-> gref]

\* `[keeper] + self.glist`: a new list object.
ArgsObject(h, gref, keeper) ==
    [heap |-> Append(h, <<keeper>> \o h[gref]), ref |-> Len(h) + 1]

\* self.cspp_results.append(self.pool.apply_async(spawn_cspp,
\* [keeper] + self.glist)): the heap and the tasks afterwards.
Emit(h, gref, keeper, ts) ==
    LET made == ArgsObject(h, gref, keeper)
    IN  [heap  |-> made.heap,
         tasks |-> Append(ts, [args |-> made.ref, emitted |-> made.heap[made.ref],
                               seen |-> None])]

\* What the list objects have no part in.
notargs == <<runnervars, storevars, scenevars, atmsrunvars>>

ArgsInit ==
    /\ RunnerIdle
    /\ StoreIdle
    /\ SceneIdle
    /\ AtmsRunnerIdle
    /\ ArgsIdle

\* run(msg) from `self.glist.append(rdr_filename)` on, for a granule that
\* is accepted; full: the file holds a full swath.
ArgsRun ==
    /\ hpc = "recv"
    /\ Len(heap) < MaxObjects
    /\ \E f \in {RdrFile(1), RdrFile(2)}, full \in BOOLEAN :
         LET h1 == [heap EXCEPT ![glist_ref] = Append(@, f)]
             h2 == [h1 EXCEPT ![glist_ref] = Evict(@)]
         IN  IF Len(h2[glist_ref]) = 1 /\ ~full
             THEN heap' = h2 /\ UNCHANGED <<tasks, hpc>>
             ELSE LET out == Emit(h2, glist_ref, Keeper(h2[glist_ref]), tasks)
                  IN  /\ heap' = out.heap
                      /\ tasks' = out.tasks
                      /\ hpc' = IF Len(h2[glist_ref]) = 1 THEN "post" ELSE "recv"
    /\ UNCHANGED <<glist_ref, notargs>>

\* run(None) with more than two granules in the window.
ArgsFlush ==
    /\ hpc = "recv"
    /\ Len(heap) < MaxObjects
    /\ SwathFinished(heap[glist_ref])
    /\ LET h1 == [heap EXCEPT ![glist_ref] = FlushWindow(@)]
           out == Emit(h1, glist_ref, FlushKeeper(h1[glist_ref]), tasks)
       IN  heap' = out.heap /\ tasks' = out.tasks
    /\ hpc' = "post"
    /\ UNCHANGED <<glist_ref, notargs>>

\* initialise(): `self.glist = []`.
ArgsInitialise ==
    /\ hpc = "post"
    /\ Len(heap) < MaxObjects
    /\ heap' = Append(heap, <<>>)
    /\ glist_ref' = Len(heap) + 1
    /\ hpc' = "recv"
    /\ UNCHANGED <<tasks, notargs>>

\* A worker thread of the pool takes a task and calls spawn_cspp(*args).
ArgsWorkerCall ==
    /\ \E i \in 1..Len(tasks) :
         /\ tasks[i].seen = None
         /\ \A j \in 1..(i - 1) : tasks[j].seen /= None
         /\ tasks' = [tasks EXCEPT ![i].seen =
                         Some([args |-> heap[tasks[i].args], objects |-> Len(heap)])]
    /\ UNCHANGED <<heap, glist_ref, hpc, notargs>>

ArgsNext == ArgsRun \/ ArgsFlush \/ ArgsInitialise \/ ArgsWorkerCall

ArgsSpec == ArgsInit /\ [][ArgsNext]_vars

\* C31: once a unit has been dispatched, its keeper and its member list
\* are not changed by what happens to the window later (append, eviction
\* at length 4, the drop of the oldest at the end of the stream,
\* initialise): the argument list the pool holds stays what it was at
\* emission, and that is what the worker calls spawn_cspp with.
C31_UnitFrozen ==
    \A i \in 1..Len(tasks) :
        /\ heap[tasks[i].args] = tasks[i].emitted
        /\ tasks[i].args /= glist_ref
        /\ tasks[i].seen /= None => tasks[i].seen[1].args = tasks[i].emitted

\* The worker takes the first unit of a pass after the window has been
\* appended to, has dropped its oldest granule twice and has been made
\* anew by initialise.
C31_Witness ==
    /\ Len(tasks) >= 4
    /\ tasks[1].seen /= None
    /\ glist_ref > tasks[4].args
    /\ tasks[1].seen[1].objects = glist_ref
    /\ Len(tasks[4].emitted) = 3
    /\ tasks[1].emitted = <<RdrFile(1), RdrFile(1), RdrFile(2)>>

\* ---------------------------------------------------------------------
\* The end of the stream with a window too short to flush.

\* C32: after an end-of-stream that found 2 or fewer granules in the
\* window, the pass is abandoned: the unit the next accepted granule
\* emits holds no granule but this one, and the pass start time is the
\* one of this granule.
C32_AsStated ==
    [][(/\ Base /\ pc = "recv" /\ raised = None
        /\ msg = None
        /\ msg' /= None
        /\ Len(cspp_results') > Len(cspp_results))
       => /\ \A i \in 1..Len(LastUnit'.args) : LastUnit'.args[i] = msg'[1].uri
          /\ pass_start_time' = Some(get_datetime_from_filename(msg'[1].uri))]_vars

\* The end of the stream found two granules, of which the first was
\* dispatched: both are still in the window and the pass start time is
\* kept.
C32_Witness ==
    /\ Base /\ pc = "recv" /\ raised = None
    /\ msg = None
    /\ status
    /\ glist = <<RdrFile(1), RdrFile(2)>>
    /\ Len(cspp_results) = 1
    /\ pass_start_time = Some(get_datetime_from_filename(RdrFile(1)))

\* ---------------------------------------------------------------------
\* The keepers of a session that ends with the flush.

\* The keepers of the units dispatched since initialise(), in order.
Keepers == [i \in 1..Len(cspp_results) |-> current_granule(cspp_results[i])]

\* C34: when a session of _BaseSdrProcessor ends with the end-of-stream
\* flush, every granule accepted in it has been the keeper of exactly one
\* unit: the keepers of the units are the accepted granules, one each and
\* in their order, whatever events were skipped in between.
C34_EachGranuleKeeperOnce ==
    (Base /\ pc = "post" /\ msg = None /\ raised = None) => Keepers = accepted_files

\* Four granules were accepted, the oldest was evicted, the last event
\* before the end of the stream was skipped, and the flush has made the
\* fourth unit.
C34_Witness ==
    /\ Base /\ pc = "post" /\ msg = None /\ raised = None
    /\ accepted_files = <<RdrFile(1), RdrFile(2), RdrFile(3), RdrFile(1)>>
    /\ Len(cspp_results) = 4
    /\ evictions = 1
    /\ message_data = Some(FileMessage(NotRdrFile))

\* ---------------------------------------------------------------------
\* What run() returns, and the pass start time after the receive loop.

\* C35: _BaseSdrProcessor.run returns False only in a call that has
\* dispatched a unit, and a call that dispatches nothing returns True, so
\* the pass start time is set whenever the receive loop is left.
C35_AsStated ==
    [][(Base /\ pc = "recv" /\ pc' = "post")
       => /\ Len(cspp_results') = Len(cspp_results) + 1
          /\ pass_start_time' /= None]_vars

\* A message naming two sensors right after initialise(): run() has
\* returned False, nothing was dispatched and no pass start time is set.
C35_Witness ==
    /\ Base /\ pc = "post"
    /\ msg = Some([FileMessage(G1) EXCEPT !.sensor = Some(SensorList(<<"viirs", "atms">>))])
    /\ ~status
    /\ cspp_results = <<>>
    /\ pass_start_time = None

\* ---------------------------------------------------------------------
\* cspp_runner/runner.py: the end of the stream in a session without
\* granules.

\* C36: an end-of-stream that arrives when no granule has been accepted
\* in the current session of npp_rolling_runner (cspp_runner/runner.py)
\* does not stop the runner.
C36_AsStated ==
    (Viirs /\ msg = None /\ cspp_results = <<>>) => raised = None

\* recv timed out before any granule of the session: the runner has ended
\* with a TypeError.
C36_Witness ==
    /\ Viirs /\ pc = "crashed"
    /\ msg = None /\ ~status
    /\ cspp_results = <<>>
    /\ pass_start_time = None
    /\ raised = Some("TypeError")

\* ---------------------------------------------------------------------
\* Events skipped for their file.

\* The file of message m is no .h5 file or is not on disk.
BadFile(m) == ~fname_endswith_h5(m[1].uri) \/ ~os_path_exists(m[1].uri)

\* C37: a granule event that run() skips because its file is not .h5 or
\* does not exist leaves the platform name, the message data and the
\* orbit number of the session as they were (both processors).
C37_AsStated ==
    [][(pc = "recv" /\ msg' /= None /\ BadFile(msg') /\ pc' = "recv")
       => /\ platform_name' = platform_name
          /\ message_data' = message_data
          /\ orbit_number' = orbit_number]_vars

\* A granule is buffered, and the message data kept for the publication
\* is that of a later event, skipped because its file is not on disk.
C37_Witness ==
    /\ Base /\ pc = "recv" /\ status
    /\ glist = <<G1>>
    /\ msg = Some(FileMessage(MissingFile))
    /\ message_data = msg

\* ---------------------------------------------------------------------
\* The completion event of a granule whose message has no orbit number.

\* The unit was dispatched for a message without orbit_number, with an
\* orbit number resolved for the session.
OrbitResolvedOnly(call) ==
    /\ call.kwargs /= None
    /\ call.kwargs[1].message_data[1].orbit_number = None
    /\ call.kwargs[1].orbit_number > 0

\* C38: a granule event without orbit_number whose orbit number was
\* resolved and whose processing left SDR files still gets its one
\* completion event from spawn_cspp / publish_sdr.
C38_AsStated ==
    (Viirs /\ wpc = "done" /\ OrbitResolvedOnly(spawned) /\ new_result_files /= {})
        => /\ worker_raised = None
           /\ Len(sent) = 1
           /\ sent[1].dataset = new_result_files
           /\ sent[1].orbit_number = Some(spawned.kwargs[1].orbit_number)

\* CSPP left the SDR files of the granule, get_sdr_files found them, and
\* spawn_cspp ended with a KeyError and no message.
C38_Witness ==
    /\ Viirs /\ wpc = "done"
    /\ OrbitResolvedOnly(spawned)
    /\ Cardinality(new_result_files) = EXPECTED_NUMBER_OF_SDR_FILES
    /\ exit_code = Some(0)
    /\ sent = <<>>
    /\ worker_raised = Some("KeyError")

\* ---------------------------------------------------------------------
\* The processors of bin/cspp_dr_runner.py and the scenes they take.

\* The keys of SDR_PROCESSORS: the sensors a processor class exists for.
SDR_PROCESSORS == {"viirs", "atms", "cris"}

\* Messages for the RDR files on disk, from supported and other satellites
\* and for the sensor given as a string or as a list of one name.
SceneMessages ==
    {[FileMessage(f) EXCEPT !.platform_name = Some(p), !.sensor = Some(s)] :
        f \in RdrFiles,
        p \in SDR_SATELLITES \cup {"Metop-B"},
        s \in {SensorStr(n) : n \in SDR_PROCESSORS \cup {"avhrr"}}
              \cup {SensorList(<<n>>) : n \in SDR_PROCESSORS}}

\* What the scenes have no part in.
notscene == <<runnervars, storevars, argsvars, atmsrunvars>>

\* sdr_proc = SDR_PROCESSORS[SENSOR](ncpus), initialise()
SceneInit ==
    /\ LoopInit
    /\ script = "cspp_dr_runner"
    /\ PoolIdle(1)
    /\ SpawnEntered(<<G1>>, 10)
    /\ StoreIdle
    /\ ArgsIdle
    /\ AtmsRunnerIdle
    /\ SENSOR \in SDR_PROCESSORS
    /\ scene = None
    /\ scene_accepts = None

\* status = sdr_proc.run(msg) for the first message of a session.
SceneRun ==
    /\ \E m \in SceneMessages : \E c \in FixCalls(Some(m)) :
         /\ scene' = Some(m)
         /\ scene_accepts' = Some(run(Self, Some(m), c.skip_fix, c.fix).appended > 0)
    /\ UNCHANGED <<SENSOR, notscene>>

SceneSpec == SceneInit /\ [][SceneRun]_vars

\* The message names the one sensor as a string or as a list of one name.
SensorIs(data, name) == data.sensor[1].names = <<name>>

\* C39: a processor created for sensor S accepts a granule event if and
\* only if its platform is one of the supported satellites and its sensor
\* is S.
C39_AsStated ==
    scene /= None =>
        (scene_accepts[1] <=> (/\ scene[1].platform_name[1] \in SDR_SATELLITES
                               /\ SensorIs(scene[1], SENSOR)))

\* An AtmsSdrProcessor has been handed an ATMS granule of NOAA-20 and has
\* skipped it.
C39_Witness ==
    /\ SENSOR = "atms"
    /\ scene /= None
    /\ scene[1].platform_name = Some("NOAA-20")
    /\ scene[1].sensor = Some(SensorStr("atms"))
    /\ scene_accepts = Some(FALSE)

\* ---------------------------------------------------------------------
\* AtmsSdrRunner (cspp_runner/atms_rdr2sdr_runner.py): the thread of
\* run() and a call of close(), from the main thread or from the handler
\* of SIGTERM.

\* Messages run() takes from the queue of the listener.
MaxMessages == 2
\* Topics of publish_topics.
NTopics == 2

\* What the listener hands over: the type of the message, whether its
\* data holds a collection, and the SDR files CSPP will leave for it.
AtmsMessages ==
    [type : {"file", "collection", "dataset", "info"}, collection : BOOLEAN,
     nfiles : {0, 2}]

\* `msg.type not in ['file', 'collection', 'dataset']`
Supported(m) == m.type \in {"file", "collection", "dataset"}

\* The body of the loop for a supported message, up to output_messages:
\* run_atms_from_message returns None for a message without collection
\* and get_filepaths joins it to a pattern (TypeError); with no file
\* found, _fix_orbit_number takes orbit_numbers[0] of an empty list
\* (IndexError); else one message for every topic.
Processed(m) ==
    IF ~m.collection THEN [raised |-> Some("TypeError"), out |-> <<>>]
    ELSE IF m.nfiles = 0 THEN [raised |-> Some("IndexError"), out |-> <<>>]
    ELSE [raised |-> None, out |-> [t \in 1..NTopics |-> [topic |-> t, nfiles |-> m.nfiles]]]

\* What AtmsSdrRunner has no part in.
notatms == <<runnervars, storevars, argsvars, scenevars>>

RunnerInit ==
    /\ RunnerIdle
    /\ StoreIdle
    /\ ArgsIdle
    /\ SceneIdle
    /\ AtmsRunnerIdle

\* `while self.loop:` and `msg = self.listener.output_queue.get(timeout=1)`,
\* with the test of msg.type.
RunGet ==
    /\ rpc = "get"
    /\ IF ~loop
       THEN rpc' = "ended" /\ UNCHANGED <<atms_msg, handled>>
       ELSE /\ handled < MaxMessages
            /\ \E m \in AtmsMessages :
                 /\ atms_msg' = Some(m)
                 /\ handled' = handled + 1
                 /\ rpc' = IF Supported(m) THEN "process" ELSE "get"
    /\ UNCHANGED <<loop, publisher, cpc, outbox, atms_sent, run_raised, notatms>>

\* run_atms_from_message ... self._get_output_messages
RunProcess ==
    /\ rpc = "process"
    /\ LET r == Processed(atms_msg[1])
       IN  /\ run_raised' = r.raised
           /\ outbox' = r.out
           /\ rpc' = IF r.raised /= None THEN "crashed" ELSE "send"
    /\ UNCHANGED <<loop, publisher, cpc, atms_msg, atms_sent, handled, notatms>>

\* `for output_msg in output_messages: self.publisher.send(str(output_msg))`
RunSend ==
    /\ rpc = "send"
    /\ IF outbox = <<>>
       THEN rpc' = "get" /\ UNCHANGED <<outbox, atms_sent>>
       ELSE /\ atms_sent' = Append(atms_sent, [msg |-> Head(outbox), publisher |-> publisher])
            /\ outbox' = Tail(outbox)
            /\ UNCHANGED rpc
    /\ UNCHANGED <<loop, publisher, cpc, atms_msg, run_raised, handled, notatms>>

\* close(): `self.loop = False`
CloseLoop ==
    /\ cpc = "idle"
    /\ loop' = FALSE
    /\ cpc' = "loop_cleared"
    /\ UNCHANGED <<publisher, rpc, atms_msg, outbox, atms_sent, run_raised, handled, notatms>>

\* close(): `self.listener.stop()`
CloseListener ==
    /\ cpc = "loop_cleared"
    /\ cpc' = "listener_stopped"
    /\ UNCHANGED <<loop, publisher, rpc, atms_msg, outbox, atms_sent, run_raised, handled,
                   notatms>>

\* close(): `self.publisher.stop()`
ClosePublisher ==
    /\ cpc = "listener_stopped"
    /\ publisher' = "stopped"
    /\ cpc' = "closed"
    /\ UNCHANGED <<loop, rpc, atms_msg, outbox, atms_sent, run_raised, handled, notatms>>

RunnerNext ==
    \/ RunGet \/ RunProcess \/ RunSend
    \/ CloseLoop \/ CloseListener \/ ClosePublisher

RunnerSpec == RunnerInit /\ [][RunnerNext]_vars

\* The processing of message m yields no SDR output.
NoOutput(m) == Supported(m) /\ (~m.collection \/ m.nfiles = 0)

\* C33: in AtmsSdrRunner.run a message whose processing yields no SDR
\* output (no collection, or no file of the patterns) publishes nothing
\* and the loop goes on with the messages that follow.
C33_AsStated ==
    (atms_msg /= None /\ NoOutput(atms_msg[1]) /\ rpc /= "process")
        => /\ run_raised = None
           /\ rpc /= "crashed"
           /\ \A i \in 1..Len(atms_sent) : atms_sent[i].msg.nfiles > 0

\* The first message had a collection and two SDR files and was
\* published; the second has no collection, and run() has ended with a
\* TypeError while self.loop is True.
C33_Witness ==
    /\ handled = 2
    /\ atms_msg /= None /\ ~atms_msg[1].collection
    /\ Len(atms_sent) = NTopics
    /\ rpc = "crashed"
    /\ run_raised = Some("TypeError")
    /\ loop
    /\ cpc = "idle"

\* C40: once close() has stopped the publisher, run() sends no message on
\* it, however close() and the loop of run() interleave.
C40_AsStated ==
    \A i \in 1..Len(atms_sent) : atms_sent[i].publisher /= "stopped"

\* close() ran to its end while run() was between two calls of send: the
\* message for the second topic went to the stopped publisher.
C40_Witness ==
    /\ cpc = "closed"
    /\ Len(atms_sent) = NTopics
    /\ atms_sent[1].publisher = "started"
    /\ atms_sent[NTopics].publisher = "stopped"
    /\ rpc = "ended"

====
